---- MODULE Spec2Model ----
(***************************************************************************)
(* State-machine model of datenlord/sync_fuse: the FUSE request dispatcher *)
(* (src/src/fuse/request.rs) in front of the reference in-memory /         *)
(* passthrough filesystem (src/src/memfs.rs).                              *)
(*                                                                         *)
(* One step of the model is one message taken from the kernel device and   *)
(* processed to completion (Request::new, then Request::dispatch, then the *)
(* filesystem method it calls).  The variable last records what that step  *)
(* did on the wire: the replies it wrote and the filesystem methods it     *)
(* invoked.                                                                *)
(*                                                                         *)
(* The build modelled is Linux, default features (ABI 7.8).  Both cargo    *)
(* profiles are covered: debug_assertions is chosen in Init and decides    *)
(* whether a failed debug_assert! panics.  A panic aborts the process      *)
(* (single thread, no catch_unwind): it is the absorbing state panicked.   *)
(*                                                                         *)
(* The backing directory is modelled by disk.  It is changed only by this  *)
(* process and holds no hard links, symlinks or hidden files.              *)
(***************************************************************************)
EXTENDS Integers, Sequences, FiniteSets, TLC

VARIABLES
    initialized,        \* Session::initialized
    destroyed,          \* Session::destroyed
    proto_major,        \* Session::proto_major
    proto_minor,        \* Session::proto_minor
    cache,              \* MemoryFilesystem::cache : ino -> INode
    trash,              \* MemoryFilesystem::trash : set of ino
    disk,               \* backing directory tree : ino -> node
    handles,            \* descriptors returned by dup_fd and not closed : fh -> ino
    debug_assertions,   \* cfg!(debug_assertions) of the build
    ino_pool,           \* inode numbers the backing file system has for its nodes
    iter,               \* a FuseArgumentIterator and the slice it was made for
    kernel_nlookup,     \* the kernel's fuse_inode::nlookup of the inodes followed : ino -> count
    dir_stream,         \* the kernel's position in a directory it lists, and the names it got
    panicked,           \* the process has panicked
    last                \* the message processed by the last step and its effects

sessVars == <<initialized, destroyed, proto_major, proto_minor>>
fsVars == <<cache, trash, disk, handles>>
vars == <<initialized, destroyed, proto_major, proto_minor, cache, trash, disk,
          handles, debug_assertions, ino_pool, iter, kernel_nlookup,
          dir_stream, panicked, last>>

----------------------------------------------------------------------------
(* Bounds of the model *)

\* inode numbers are 1..MaxIno
MaxIno == 2
\* inode numbers are 1..MaxTreeIno where directories are nested
MaxTreeIno == 3
\* file names are 1..MaxName, ordered as the byte strings they stand for
MaxName == 2
\* request unique ids are 1..MaxUnique
MaxUnique == 2
\* lookup is not issued for an inode whose lookup count reached MaxLookup
MaxLookup == 2
\* forget deltas are 1..MaxForget
MaxForget == 2
\* how far below zero a lookup count or an open count may be taken
MaxDeficit == 1
\* at most MaxHandles descriptors from open/opendir are outstanding
MaxHandles == 1
\* file offsets, sizes and buffers stay within 0..MaxFileLen
MaxFileLen == 2
\* the slice an argument iterator is made for has at most MaxArgLen bytes
MaxArgLen == 4
\* the bytes of such a slice are 0..MaxArgByte, 0 being the NUL
MaxArgByte == 2

Inos == 1..MaxIno
\* a mount directory that holds three files has inodes 1..MaxListIno
MaxListIno == 4
TreeInos == 1..MaxTreeIno
Names == 1..MaxName

----------------------------------------------------------------------------
(* Program constants *)

FUSE_KERNEL_VERSION == 7
FUSE_KERNEL_MINOR_VERSION == 8
FUSE_ROOT_ID == 1
FUSE_ASYNC_READ == 1
INIT_FLAGS == FUSE_ASYNC_READ
MY_GENERATION == 1
\* session.rs is not part of the sources: values from the specification
MAX_WRITE_SIZE == 131072
BUFFER_SIZE == MAX_WRITE_SIZE + 4096
\* size of fuse_in_header: 2 * u32 + 2 * u64 + 4 * u32
HeaderLen == 40

EPROTO == 71
EIO == 5
ENOSYS == 38
ENOENT == 2
EEXIST == 17
EINVAL == 22
ENOTEMPTY == 39
ENODATA == 61

\* st_size of a directory of the backing file system
DirSize == 4096
\* O_RDONLY and O_RDWR of open(2)
O_RDONLY == 0
O_RDWR == 2

FATTR_MODE == 1
FATTR_UID == 2
FATTR_SIZE == 8
FATTR_FH == 64

----------------------------------------------------------------------------
(* Small helpers *)

Min(a, b) == IF a < b THEN a ELSE b

RECURSIVE BitAnd(_, _)
\* a & b on non-negative integers
BitAnd(a, b) ==
    IF a = 0 \/ b = 0 THEN 0
    ELSE (IF a % 2 = 1 /\ b % 2 = 1 THEN 1 ELSE 0) + 2 * BitAnd(a \div 2, b \div 2)

\* f with key k removed
Drop(f, k) == [x \in (DOMAIN f) \ {k} |-> f[x]]

\* f with key k bound to v
Put(f, k, v) == [x \in (DOMAIN f) \cup {k} |-> IF x = k THEN v ELSE f[x]]

NoEntries == [n \in {} |-> 0]

----------------------------------------------------------------------------
(* Opcodes *)

\* impl TryFrom<u32> for fuse_opcode: the name of the opcode, or the error
fuse_opcode_try_from(n) ==
    CASE n = 1 -> "FUSE_LOOKUP"
      [] n = 2 -> "FUSE_FORGET"
      [] n = 3 -> "FUSE_GETATTR"
      [] n = 4 -> "FUSE_SETATTR"
      [] n = 5 -> "FUSE_READLINK"
      [] n = 6 -> "FUSE_SYMLINK"
      [] n = 8 -> "FUSE_MKNOD"
      [] n = 9 -> "FUSE_MKDIR"
      [] n = 10 -> "FUSE_UNLINK"
      [] n = 11 -> "FUSE_RMDIR"
      [] n = 12 -> "FUSE_RENAME"
      [] n = 13 -> "FUSE_LINK"
      [] n = 14 -> "FUSE_OPEN"
      [] n = 15 -> "FUSE_READ"
      [] n = 16 -> "FUSE_WRITE"
      [] n = 17 -> "FUSE_STATFS"
      [] n = 18 -> "FUSE_RELEASE"
      [] n = 20 -> "FUSE_FSYNC"
      [] n = 21 -> "FUSE_SETXATTR"
      [] n = 22 -> "FUSE_GETXATTR"
      [] n = 23 -> "FUSE_LISTXATTR"
      [] n = 24 -> "FUSE_REMOVEXATTR"
      [] n = 25 -> "FUSE_FLUSH"
      [] n = 26 -> "FUSE_INIT"
      [] n = 27 -> "FUSE_OPENDIR"
      [] n = 28 -> "FUSE_READDIR"
      [] n = 29 -> "FUSE_RELEASEDIR"
      [] n = 30 -> "FUSE_FSYNCDIR"
      [] n = 31 -> "FUSE_GETLK"
      [] n = 32 -> "FUSE_SETLK"
      [] n = 33 -> "FUSE_SETLKW"
      [] n = 34 -> "FUSE_ACCESS"
      [] n = 35 -> "FUSE_CREATE"
      [] n = 36 -> "FUSE_INTERRUPT"
      [] n = 37 -> "FUSE_BMAP"
      [] n = 38 -> "FUSE_DESTROY"
      [] OTHER -> "InvalidOpcodeError"


\* opcodes served by a Filesystem method MemoryFilesystem leaves at its default
DefaultOpcodes == {5, 6, 13, 17, 20, 21, 22, 23, 24, 25, 30, 31, 32, 33, 34, 35, 37}

\* opcode numbers of the messages the session itself answers: LOOKUP and
\* FORGET of MemoryFilesystem, READLINK left at the default, INIT, INTERRUPT,
\* DESTROY, and numbers that name no opcode (0, 7, 39)
Opcodes == {1, 2} \cup {5} \cup {26, 36, 38} \cup {0, 7, 39}

\* ll_request::Operation of an opcode number (the parser is not part of the
\* sources): opcode 0 is a parse error, any other number that names no
\* opcode is Operation::NoImplementation
Operation(n) ==
    IF n = 0 THEN "ParseError"
    ELSE IF fuse_opcode_try_from(n) = "InvalidOpcodeError" THEN "NoImplementation"
    ELSE fuse_opcode_try_from(n)

----------------------------------------------------------------------------
(* Messages and replies *)

\* The fuse_in_header fields the model keeps, with buflen the number of bytes
\* the channel delivered.  Lengths are relative to a message without
\* arguments: a well-framed message has buflen = len = HeaderLen.
Framings == {<<HeaderLen, HeaderLen>>, <<HeaderLen - 1, HeaderLen>>,
             <<HeaderLen, HeaderLen - 1>>, <<HeaderLen, HeaderLen + 1>>}

\* the headers of the next message: the kernel numbers its requests one
\* after the other (the numbers wrap at MaxUnique)
Headers ==
    {[buflen |-> f[1], len |-> f[2], unique |-> (last.hdr.unique % MaxUnique) + 1] :
        f \in Framings}

\* ll_request::Request::try_from (the parser is not part of the sources):
\* short header, length below the header size, declared length above the
\* delivered length and opcode 0 are parse errors
TryFromData(h, n) ==
    IF h.buflen < HeaderLen THEN "ShortReadHeader"
    ELSE IF h.len < HeaderLen THEN "BadLength"
    ELSE IF h.len > h.buflen THEN "ShortRead"
    ELSE IF Operation(n) = "ParseError" THEN "UnknownOperation"
    ELSE "Ok"

\* a Request::new that builds a request from any message
RequestNewAlways(h, n) == TRUE

\* Request::new: Some(request) iff the parser returns Ok
RequestNew(h, n) == TryFromData(h, n) = "Ok"

\* Reply::error(errno): fuse_out_header{error = -errno, unique}
ReplyError(u, errno) == [unique |-> u, error |-> errno, kind |-> "error", payload |-> <<>>]

\* a success method of a reply object: fuse_out_header{error = 0, unique} and payload
ReplyOk(u, kind, payload) == [unique |-> u, error |-> 0, kind |-> kind, payload |-> payload]

\* what one step did: the message (header and parsed operation), the replies
\* written to the channel and the filesystem methods invoked
Effect(h, n, replies, called) ==
    [hdr |-> h, op |-> IF RequestNew(h, n) THEN Operation(n) ELSE "ParseError",
     replies |-> replies, called |-> called]

NoHeader == [buflen |-> 0, len |-> 0, unique |-> 0]

----------------------------------------------------------------------------
(* FuseArgumentIterator *)

\* the slices an iterator is made for
RECURSIVE SlicesOfLen(_)
SlicesOfLen(n) ==
    IF n = 0 THEN {<<>>}
    ELSE {Append(d, b) : d \in SlicesOfLen(n - 1), b \in 0..MaxArgByte}

ArgSlices == UNION {SlicesOfLen(n) : n \in 0..MaxArgLen}

\* size_of::<T>() and align_of::<T>() of the types fetched: u8, u16 and a
\* record like TestArgument
TypeLayouts == {[size |-> 1, align |-> 1], [size |-> 2, align |-> 2],
                [size |-> 4, align |-> 2]}

\* FuseArgumentIterator::new on a slice that lies at an address with
\* remainder base modulo 2; orig keeps the slice, ret is what the last call
\* returned (<<>> is None, <<v>> is Some(v) or the slice of fetch_all)
IteratorNew(data, base) ==
    [orig |-> data, base |-> base, data |-> data, call |-> "new", ret |-> <<>>]

\* FuseArgumentIterator::len
IterLen(it) == Len(it.data)

\* a fetch_bytes that returns the bytes and leaves the cursor where it is
FetchBytesPeek(data, amt) ==
    IF amt > Len(data) THEN [ret |-> <<>>, data |-> data]
    ELSE [ret |-> <<SubSeq(data, 1, amt)>>, data |-> data]

\* FuseArgumentIterator::fetch_bytes on the remaining data: data.get(..amt)?
\* and then data = data.get(amt..)
FetchBytesOf(data, amt) ==
    IF amt > Len(data) THEN [ret |-> <<>>, data |-> data]
    ELSE [ret |-> <<SubSeq(data, 1, amt)>>, data |-> SubSeq(data, amt + 1, Len(data))]

\* a fetch_str that takes the string and then looks for the terminator
\* without having checked that there is one
FetchStrEager(data) ==
    LET zeros == {i \in 1..Len(data) : data[i] = 0}
        len   == IF zeros = {} THEN Len(data)
                 ELSE (CHOOSE i \in zeros : \A j \in zeros : i <= j) - 1
        bytes == FetchBytesOf(data, len)
        zero  == FetchBytesOf(bytes.data, 1)
    IN IF zero.ret = <<>> THEN [ret |-> <<>>, data |-> zero.data]
       ELSE [ret |-> bytes.ret, data |-> zero.data]

\* FuseArgumentIterator::fetch_str on the remaining data: position of the
\* first 0, fetch_bytes of that length, fetch_bytes(1) for the terminator
FetchStrOf(data) ==
    LET zeros == {i \in 1..Len(data) : data[i] = 0}
    IN IF zeros = {} THEN [ret |-> <<>>, data |-> data]
       ELSE LET len   == (CHOOSE i \in zeros : \A j \in zeros : i <= j) - 1
                bytes == FetchBytesOf(data, len)
                zero  == FetchBytesOf(bytes.data, 1)
            IN IF bytes.ret = <<>> THEN [ret |-> <<>>, data |-> bytes.data]
               ELSE IF zero.ret = <<>> THEN [ret |-> <<>>, data |-> zero.data]
               ELSE [ret |-> bytes.ret, data |-> zero.data]

\* FuseArgumentIterator::fetch_all
FetchAll ==
    /\ ~panicked
    /\ iter' = [iter EXCEPT !.data = <<>>, !.ret = <<iter.data>>, !.call = "fetch_all"]
    /\ UNCHANGED <<sessVars, fsVars, debug_assertions, ino_pool, kernel_nlookup, dir_stream, panicked, last>>

\* FuseArgumentIterator::fetch_bytes
FetchBytes(amt) ==
    /\ ~panicked
    /\ LET r == FetchBytesOf(iter.data, amt)
       IN iter' = [iter EXCEPT !.data = r.data, !.ret = r.ret, !.call = "fetch_bytes"]
    /\ UNCHANGED <<sessVars, fsVars, debug_assertions, ino_pool, kernel_nlookup, dir_stream, panicked, last>>

\* FuseArgumentIterator::fetch::<T>: the bytes stand for the record.  The
\* reference is made without regard to the alignment of T: at an address
\* that is not a multiple of it the call either returns the reference or
\* the build's check of the dereference panics.
Fetch(T) ==
    /\ ~panicked
    /\ LET r    == FetchBytesOf(iter.data, T.size)
           addr == iter.base + (Len(iter.orig) - Len(iter.data))
       IN /\ iter' = [iter EXCEPT !.data = r.data, !.ret = r.ret, !.call = "fetch"]
          /\ \/ panicked' = FALSE
             \/ /\ r.ret # <<>>
                /\ addr % T.align # 0
                /\ panicked' = TRUE
    /\ UNCHANGED <<sessVars, fsVars, debug_assertions, ino_pool, kernel_nlookup, dir_stream, last>>

\* FuseArgumentIterator::fetch_str
FetchStr ==
    /\ ~panicked
    /\ LET r == FetchStrOf(iter.data)
       IN iter' = [iter EXCEPT !.data = r.data, !.ret = r.ret, !.call = "fetch_str"]
    /\ UNCHANGED <<sessVars, fsVars, debug_assertions, ino_pool, kernel_nlookup, dir_stream, panicked, last>>

----------------------------------------------------------------------------
(* Session: Request::dispatch *)

\* a dispatcher that looks at the operation before it looks at initialized
RouteDestroyFirst(op) ==
    IF op = "FUSE_INIT" THEN "init"
    ELSE IF op = "FUSE_DESTROY" THEN "destroy"
    ELSE IF ~initialized THEN "before_init"
    ELSE IF destroyed THEN "after_destroy"
    ELSE IF op = "FUSE_INTERRUPT" THEN "interrupt"
    ELSE IF op = "NoImplementation" THEN "no_implementation"
    ELSE "filesystem"

\* a dispatcher that answers INTERRUPT before it looks at destroyed
RouteInterruptFirst(op) ==
    IF op = "FUSE_INIT" THEN "init"
    ELSE IF ~initialized THEN "before_init"
    ELSE IF op = "FUSE_DESTROY" THEN "destroy"
    ELSE IF op = "FUSE_INTERRUPT" THEN "interrupt"
    ELSE IF destroyed THEN "after_destroy"
    ELSE IF op = "NoImplementation" THEN "no_implementation"
    ELSE "filesystem"

\* a dispatcher that takes an INIT only once: after a successful init it
\* is refused like any operation after destroy
RouteInitOnce(op) ==
    IF op = "FUSE_INIT" /\ ~initialized THEN "init"
    ELSE IF ~initialized THEN "before_init"
    ELSE IF op = "FUSE_DESTROY" THEN "destroy"
    ELSE IF destroyed \/ op = "FUSE_INIT" THEN "after_destroy"
    ELSE IF op = "FUSE_INTERRUPT" THEN "interrupt"
    ELSE IF op = "NoImplementation" THEN "no_implementation"
    ELSE "filesystem"

\* the arm of the match in Request::dispatch that an operation takes
Route(op) ==
    IF op = "FUSE_INIT" THEN "init"
    ELSE IF ~initialized THEN "before_init"
    ELSE IF op = "FUSE_DESTROY" THEN "destroy"
    ELSE IF destroyed THEN "after_destroy"
    ELSE IF op = "FUSE_INTERRUPT" THEN "interrupt"
    ELSE IF op = "NoImplementation" THEN "no_implementation"
    ELSE "filesystem"

\* the dispatcher hands opcode n of a message with header h to the filesystem
ToFilesystem(h, n) ==
    /\ ~panicked
    /\ RequestNew(h, n)
    /\ Route(Operation(n)) = "filesystem"

\* the fuse_init_in records the kernel sends: versions on both sides of 7.6,
\* max_readahead below and above BUFFER_SIZE, flags with and without
\* FUSE_ASYNC_READ
InitIns ==
    {[major |-> 6, minor |-> 9, max_readahead |-> 4096, flags |-> 3],
     [major |-> 7, minor |-> 5, max_readahead |-> BUFFER_SIZE + 1, flags |-> 2],
     [major |-> 7, minor |-> 6, max_readahead |-> 4096, flags |-> 3],
     [major |-> 8, minor |-> 0, max_readahead |-> BUFFER_SIZE + 1, flags |-> 2]}
EACCES == 13
\* results of Filesystem::init: 0 is Ok(()), as MemoryFilesystem::init always
\* returns; another implementation of the trait may return Err(errno)
FsInitResults == {0, EACCES}

\* a version check that lets 7.5 pass
UnsupportedBefore75(major, minor) == major < 7 \/ (major = 7 /\ minor < 5)

\* "We don't support ABI versions before 7.6"
UnsupportedVersion(major, minor) == major < 7 \/ (major = 7 /\ minor < 6)

\* an init reply that hands the kernel's flags back unmasked
InitOutAllFlags(max_readahead, flags) ==
    [major |-> FUSE_KERNEL_VERSION,
     minor |-> FUSE_KERNEL_MINOR_VERSION,
     max_readahead |-> IF BUFFER_SIZE < max_readahead THEN BUFFER_SIZE ELSE max_readahead,
     flags |-> flags,
     max_write |-> MAX_WRITE_SIZE]

\* the fuse_init_out the dispatcher builds for a fuse_init_in
InitOut(max_readahead, flags) ==
    [major |-> FUSE_KERNEL_VERSION,
     minor |-> FUSE_KERNEL_MINOR_VERSION,
     max_readahead |-> IF BUFFER_SIZE < max_readahead THEN BUFFER_SIZE ELSE max_readahead,
     flags |-> BitAnd(flags, INIT_FLAGS),
     max_write |-> MAX_WRITE_SIZE]

\* an Init arm that does not look at what the file system's init returned
DispatchInitUnchecked(h, major, minor, max_readahead, flags, res) ==
    /\ ~panicked
    /\ RequestNew(h, 26)
    /\ Route(Operation(26)) = "init"
    /\ IF UnsupportedVersion(major, minor)
       THEN /\ last' = Effect(h, 26, <<ReplyError(h.unique, EPROTO)>>, <<>>)
            /\ UNCHANGED <<initialized, proto_major, proto_minor>>
       ELSE /\ proto_major' = major
            /\ proto_minor' = minor
            /\ initialized' = TRUE
            /\ last' = Effect(h, 26, <<ReplyOk(h.unique, "init", InitOut(max_readahead, flags))>>,
                              <<"init">>)
    /\ UNCHANGED <<destroyed, fsVars, debug_assertions, ino_pool, iter, kernel_nlookup, dir_stream, panicked>>

\* Operation::Init
DispatchInit(h, major, minor, max_readahead, flags, res) ==
    /\ ~panicked
    /\ RequestNew(h, 26)
    /\ Route(Operation(26)) = "init"
    /\ IF UnsupportedVersion(major, minor)
       THEN /\ last' = Effect(h, 26, <<ReplyError(h.unique, EPROTO)>>, <<>>)
            /\ UNCHANGED <<initialized, proto_major, proto_minor>>
       ELSE /\ proto_major' = major
            /\ proto_minor' = minor
            /\ IF res # 0
               THEN /\ last' = Effect(h, 26, <<ReplyError(h.unique, res)>>, <<"init">>)
                    /\ UNCHANGED initialized
               ELSE /\ initialized' = TRUE
                    /\ last' = Effect(h, 26, <<ReplyOk(h.unique, "init", InitOut(max_readahead, flags))>>,
                                 <<"init">>)
    /\ UNCHANGED <<destroyed, fsVars, debug_assertions, ino_pool, iter, kernel_nlookup, dir_stream, panicked>>

\* "Any operation is invalid before initialization"
DispatchBeforeInit(h, n) ==
    /\ ~panicked
    /\ RequestNew(h, n)
    /\ Route(Operation(n)) = "before_init"
    /\ last' = Effect(h, n, <<ReplyError(h.unique, EIO)>>, <<>>)
    /\ UNCHANGED <<sessVars, fsVars, debug_assertions, ino_pool, iter, kernel_nlookup, dir_stream, panicked>>

\* Operation::Destroy
DispatchDestroy(h) ==
    /\ ~panicked
    /\ RequestNew(h, 38)
    /\ Route(Operation(38)) = "destroy"
    /\ destroyed' = TRUE
    /\ last' = Effect(h, 38, <<ReplyOk(h.unique, "empty", <<>>)>>, <<"destroy">>)
    /\ UNCHANGED <<initialized, proto_major, proto_minor, fsVars, debug_assertions, ino_pool, iter, kernel_nlookup, dir_stream, panicked>>

\* "Any operation is invalid after destroy"
DispatchAfterDestroy(h, n) ==
    /\ ~panicked
    /\ RequestNew(h, n)
    /\ Route(Operation(n)) = "after_destroy"
    /\ last' = Effect(h, n, <<ReplyError(h.unique, EIO)>>, <<>>)
    /\ UNCHANGED <<sessVars, fsVars, debug_assertions, ino_pool, iter, kernel_nlookup, dir_stream, panicked>>

\* an INTERRUPT arm that answers EIO
DispatchInterruptEIO(h) ==
    /\ ~panicked
    /\ RequestNew(h, 36)
    /\ Route(Operation(36)) = "interrupt"
    /\ last' = Effect(h, 36, <<ReplyError(h.unique, EIO)>>, <<>>)
    /\ UNCHANGED <<sessVars, fsVars, debug_assertions, ino_pool, iter, kernel_nlookup, dir_stream, panicked>>

\* Operation::Interrupt
DispatchInterrupt(h) ==
    /\ ~panicked
    /\ RequestNew(h, 36)
    /\ Route(Operation(36)) = "interrupt"
    /\ last' = Effect(h, 36, <<ReplyError(h.unique, ENOSYS)>>, <<>>)
    /\ UNCHANGED <<sessVars, fsVars, debug_assertions, ino_pool, iter, kernel_nlookup, dir_stream, panicked>>

\* Operation::NoImplementation: logged, nothing is written to the channel
DispatchNoImplementation(h, n) ==
    /\ ~panicked
    /\ RequestNew(h, n)
    /\ Route(Operation(n)) = "no_implementation"
    /\ last' = Effect(h, n, <<>>, <<>>)
    /\ UNCHANGED <<sessVars, fsVars, debug_assertions, ino_pool, iter, kernel_nlookup, dir_stream, panicked>>

\* A method of the Filesystem trait that MemoryFilesystem does not override:
\* the default implementation replies ENOSYS (the trait is not part of the
\* sources)
DispatchDefault(h, n) ==
    /\ n \in DefaultOpcodes
    /\ ToFilesystem(h, n)
    /\ last' = Effect(h, n, <<ReplyError(h.unique, ENOSYS)>>, <<"default">>)
    /\ UNCHANGED <<sessVars, fsVars, debug_assertions, ino_pool, iter, kernel_nlookup, dir_stream, panicked>>

\* Session::run on a message Request::new rejects (the session loop is not
\* part of the sources): EIO when the header, and so the unique id, was
\* read; otherwise the message is dropped
SessionParseError(h, n) ==
    /\ ~panicked
    /\ ~RequestNew(h, n)
    /\ last' = Effect(h, n,
                 IF h.buflen >= HeaderLen THEN <<ReplyError(h.unique, EIO)>> ELSE <<>>,
                 <<>>)
    /\ UNCHANGED <<sessVars, fsVars, debug_assertions, ino_pool, iter, kernel_nlookup, dir_stream, panicked>>

----------------------------------------------------------------------------
(* Reference filesystem: inodes and the backing directory *)

\* INode::DIR(DirNode): parent, name, attr, data (name -> DirEntry),
\* open_count, lookup_count.  The descriptor dir_fd is the disk node ino.
DirNode(ino, parent, name, size, entries) ==
    [ino |-> ino, kind |-> "DIR", parent |-> parent, name |-> name, size |-> size,
     perm |-> 0, uid |-> 0, ctime |-> 0,
     entries |-> entries, data |-> <<>>, rdwr |-> FALSE,
     open_count |-> 1, lookup_count |-> 1]

\* a file inode that starts with no lookup counted
FileNodeUncounted(ino, parent, name, size, rdwr) ==
    [ino |-> ino, kind |-> "FILE", parent |-> parent, name |-> name, size |-> size,
     perm |-> 0, uid |-> 0, ctime |-> 0,
     entries |-> NoEntries, data |-> <<>>, rdwr |-> rdwr,
     open_count |-> 1, lookup_count |-> 0]

\* INode::FILE(FileNode): parent, name, attr, data (bytes), fd,
\* open_count, lookup_count.  rdwr tells whether fd was opened O_RDWR.
FileNode(ino, parent, name, size, rdwr) ==
    [ino |-> ino, kind |-> "FILE", parent |-> parent, name |-> name, size |-> size,
     perm |-> 0, uid |-> 0, ctime |-> 0,
     entries |-> NoEntries, data |-> <<>>, rdwr |-> rdwr,
     open_count |-> 1, lookup_count |-> 1]

\* struct DirEntry {ino, name, entry_type}; the name is the key of the map
DirEntry(ino, entry_type) == [ino |-> ino, entry_type |-> entry_type]

\* a node of the backing directory: linked is FALSE once it was unlinked and
\* lives on only through open descriptors
DiskNode(kind, parent, name, content) ==
    [kind |-> kind, parent |-> parent, name |-> name, content |-> content, linked |-> TRUE]

\* the ino the backing directory d holds under name, or 0
DiskChild(d, name) ==
    IF \E i \in DOMAIN disk : disk[i].linked /\ disk[i].parent = d /\ disk[i].name = name
    THEN CHOOSE i \in DOMAIN disk : disk[i].linked /\ disk[i].parent = d /\ disk[i].name = name
    ELSE 0

\* directory d still exists in the backing tree (the root always does)
DiskDirAlive(d) == d \in DOMAIN disk /\ disk[d].kind = "DIR" /\ disk[d].linked

\* util::read_attr: st_size of the node behind a descriptor
StatSize(dk, i) == IF dk[i].kind = "DIR" THEN DirSize ELSE Len(dk[i].content)

\* close on drop: an unlinked node disappears with its last descriptor (the
\* inode's own fd while it is cached, and the descriptors open/opendir gave out)
CloseDropped(dk, c, hs) ==
    [i \in {j \in DOMAIN dk : dk[j].linked \/ j \in DOMAIN c
                              \/ \E fh \in DOMAIN hs : hs[fh].ino = j} |-> dk[i]]

\* INode::helper_load_dir_data: the entries of the backing directory that
\* pass the filters (regular files only), keyed by name
LoadDirData(dk, d) ==
    LET kids == {i \in DOMAIN dk : dk[i].linked /\ dk[i].parent = d /\ dk[i].kind = "FILE"}
    IN [n \in {dk[i].name : i \in kids} |->
          DirEntry(CHOOSE i \in kids : dk[i].name = n, "File")]

\* an emptiness test that every inode passes
IsEmptyAlways(inode) == TRUE

\* INode::is_empty
IsEmpty(inode) ==
    IF inode.kind = "DIR" THEN DOMAIN inode.entries = {} ELSE inode.data = <<>>

\* INode::need_load_data
NeedLoadData(inode) == IsEmpty(inode) /\ inode.size > 0

\* a directory map that reports no name as present
HasEntryNever(inode, name) == FALSE

\* INode::get_entry on a cached directory inode: is name in its map
HasEntry(inode, name) == name \in DOMAIN inode.entries

\* util::convert_node_type of a DirEntry's type
ConvertNodeType(entry_type) == IF entry_type = "Directory" THEN "DIR" ELSE "FILE"

\* the fuse_attr fields of a reply that the model keeps
AttrOf(inode) == [ino |-> inode.ino, size |-> inode.size, kind |-> inode.kind,
                  perm |-> inode.perm, uid |-> inode.uid, ctime |-> inode.ctime]

\* reply.entry(ttl, attr, MY_GENERATION)
EntryOut(inode) == [attr |-> AttrOf(inode), generation |-> MY_GENERATION]

\* a panic in a filesystem method: nothing is replied and the process
\* aborts, which discards its memory and closes its descriptors
Panic(h, n, method) ==
    /\ panicked' = TRUE
    /\ cache' = [i \in {} |-> 0]
    /\ trash' = {}
    /\ handles' = [fh \in {} |-> 0]
    /\ disk' = CloseDropped(disk, cache', handles')
    /\ last' = Effect(h, n, <<>>, <<method>>)
    /\ UNCHANGED <<sessVars, debug_assertions, ino_pool, iter, kernel_nlookup, dir_stream>>

\* no directory is being listed
NoStream == [ino |-> 0, pos |-> 0, seen |-> <<>>, eof |-> FALSE]

\* the kernel listing directory ino: a reply to the readdir it sent for its
\* position gives it the names of the entries and, as its new position, the
\* offset of the last entry; an empty reply ends the listing
ReadStream(ino, offset, buf) ==
    IF dir_stream.ino = ino /\ dir_stream.pos = offset /\ ~dir_stream.eof
    THEN IF buf = <<>>
         THEN [dir_stream EXCEPT !.eof = TRUE]
         ELSE [dir_stream EXCEPT !.pos = buf[Len(buf)].off,
                                 !.seen = @ \o [j \in 1..Len(buf) |-> buf[j].name]]
    ELSE dir_stream

\* files found in the mount directory when the filesystem starts
PreFiles == {[ino |-> 2, name |-> 1, content |-> <<1>>]}

\* INode::open_root_inode
OpenRootInode(dk) ==
    LET root == DirNode(FUSE_ROOT_ID, FUSE_ROOT_ID, 0, DirSize, NoEntries)
    IN IF NeedLoadData(root) THEN [root EXCEPT !.entries = LoadDirData(dk, FUSE_ROOT_ID)]
       ELSE root

\* Session::new (not part of the sources) and MemoryFilesystem::new
Init ==
    /\ initialized = FALSE
    /\ destroyed = FALSE
    /\ proto_major = 0
    /\ proto_minor = 0
    /\ \E pre \in SUBSET PreFiles :
         disk = [i \in {FUSE_ROOT_ID} \cup {f.ino : f \in pre} |->
                   IF i = FUSE_ROOT_ID THEN DiskNode("DIR", 0, 0, <<>>)
                   ELSE LET f == CHOOSE g \in pre : g.ino = i
                        IN DiskNode("FILE", FUSE_ROOT_ID, f.name, f.content)]
    /\ cache = [i \in {FUSE_ROOT_ID} |-> OpenRootInode(disk)]
    /\ trash = {}
    /\ handles = [fh \in {} |-> 0]
    /\ debug_assertions \in BOOLEAN
    /\ ino_pool = Inos
    /\ iter = IteratorNew(<<>>, 0)
    /\ kernel_nlookup = [i \in {} |-> 0]
    /\ dir_stream = NoStream
    /\ panicked = FALSE
    /\ last = Effect(NoHeader, 0, <<>>, <<>>)

----------------------------------------------------------------------------
(* Reference filesystem: impl Filesystem for MemoryFilesystem *)

\* a getattr that answers twice
GetAttrTwice(h, ino) ==
    /\ ToFilesystem(h, 3)
    /\ ino \in DOMAIN cache
    /\ last' = Effect(h, 3, <<ReplyOk(h.unique, "attr", AttrOf(cache[ino])),
                               ReplyOk(h.unique, "attr", AttrOf(cache[ino]))>>, <<"getattr">>)
    /\ UNCHANGED <<sessVars, fsVars, debug_assertions, ino_pool, iter, kernel_nlookup, dir_stream, panicked>>

\* MemoryFilesystem::getattr
GetAttr(h, ino) ==
    /\ ToFilesystem(h, 3)
    /\ IF ino \notin DOMAIN cache
       THEN Panic(h, 3, "getattr")
       ELSE /\ last' = Effect(h, 3, <<ReplyOk(h.unique, "attr", AttrOf(cache[ino]))>>,
                              <<"getattr">>)
            /\ UNCHANGED <<sessVars, fsVars, debug_assertions, ino_pool, iter, kernel_nlookup, dir_stream, panicked>>

\* the inode lookup builds on a cache miss: open_child_dir / open_child_file
\* (O_RDONLY) on the parent's descriptor, then read_attr
OpenChild(parent, name, ino) ==
    IF disk[ino].kind = "DIR"
    THEN LET d == DirNode(ino, parent, name, StatSize(disk, ino), NoEntries)
         IN IF NeedLoadData(d) THEN [d EXCEPT !.entries = LoadDirData(disk, ino)] ELSE d
    ELSE FileNode(ino, parent, name, StatSize(disk, ino), FALSE)

\* INode::lookup_attr, after the reply: inc_lookup_count
LookupAttr(inode) == [inode EXCEPT !.lookup_count = @ + 1]

\* the kernel's nlookup of an inode it follows: one more for every entry
\* reply it receives, and fuse_forget_in::nlookup less for a forget it sends
KernelNlookup(ino, delta) ==
    IF ino \in DOMAIN kernel_nlookup
    THEN [kernel_nlookup EXCEPT ![ino] = @ + delta]
    ELSE kernel_nlookup

\* MemoryFilesystem::lookup
Lookup(h, parent, name) ==
    /\ ToFilesystem(h, 1)
    /\ IF parent \notin DOMAIN cache \/ cache[parent].kind # "DIR"
       THEN Panic(h, 1, "lookup")
       ELSE IF ~HasEntry(cache[parent], name)
       THEN /\ last' = Effect(h, 1, <<ReplyError(h.unique, ENOENT)>>, <<"lookup">>)
            /\ UNCHANGED <<sessVars, fsVars, debug_assertions, ino_pool, iter, kernel_nlookup, dir_stream, panicked>>
       ELSE LET ino == cache[parent].entries[name].ino
            IN IF ino \in DOMAIN cache
               THEN \* cache hit
                    /\ cache[ino].lookup_count < MaxLookup
                    /\ cache' = [cache EXCEPT ![ino] = LookupAttr(@)]
                    /\ last' = Effect(h, 1, <<ReplyOk(h.unique, "entry", EntryOut(cache[ino]))>>,
                                      <<"lookup">>)
                    /\ kernel_nlookup' = KernelNlookup(ino, 1)
                    /\ UNCHANGED <<sessVars, trash, disk, handles, debug_assertions, ino_pool, iter, dir_stream, panicked>>
               ELSE \* cache miss
                    IF DiskChild(parent, name) = 0
                    THEN Panic(h, 1, "lookup")
                    ELSE LET dino  == DiskChild(parent, name)
                             child == OpenChild(parent, name, dino)
                         IN /\ cache' = Put(cache, dino, LookupAttr(child))
                            /\ last' = Effect(h, 1, <<ReplyOk(h.unique, "entry", EntryOut(child))>>,
                                         <<"lookup">>)
                            /\ kernel_nlookup' = KernelNlookup(dino, 1)
                            /\ UNCHANGED <<sessVars, trash, disk, handles,
                                           debug_assertions, ino_pool, iter, dir_stream, panicked>>

\* a forget that takes one lookup off, whatever the request says
DecLookupCountByOne(inode, nlookup) == inode.lookup_count - 1

\* INode::dec_lookup_count_by, then get_lookup_count: the count after forget
DecLookupCountBy(inode, nlookup) == inode.lookup_count - nlookup

\* a forget that takes the inode out of the cache as soon as its count is
\* zero, in the trash or not
ForgetDropsAtZero(h, ino, nlookup) ==
    /\ ToFilesystem(h, 2)
    /\ IF ino \notin DOMAIN cache
       THEN Panic(h, 2, "forget")
       ELSE LET current_count == DecLookupCountBy(cache[ino], nlookup)
            IN IF debug_assertions /\ current_count < 0
               THEN Panic(h, 2, "forget")
               ELSE /\ current_count >= 0 - MaxDeficit
                    /\ IF current_count = 0
                       THEN /\ cache' = Drop(cache, ino)
                            /\ trash' = trash \ {ino}
                            /\ disk' = CloseDropped(disk, cache', handles)
                       ELSE /\ cache' = [cache EXCEPT ![ino].lookup_count = current_count]
                            /\ UNCHANGED <<trash, disk>>
                    /\ last' = Effect(h, 2, <<>>, <<"forget">>)
                    /\ kernel_nlookup' = KernelNlookup(ino, 0 - nlookup)
                    /\ UNCHANGED <<sessVars, handles, debug_assertions, ino_pool, iter, dir_stream, panicked>>

\* MemoryFilesystem::forget
Forget(h, ino, nlookup) ==
    /\ ToFilesystem(h, 2)
    /\ IF ino \notin DOMAIN cache
       THEN Panic(h, 2, "forget")
       ELSE LET current_count == DecLookupCountBy(cache[ino], nlookup)
            IN IF debug_assertions /\ current_count < 0
               THEN Panic(h, 2, "forget")
               ELSE /\ current_count >= 0 - MaxDeficit
                    /\ IF current_count = 0 /\ ino \in trash
                       THEN \* deferred deletion
                            /\ cache' = Drop(cache, ino)
                            /\ trash' = trash \ {ino}
                            /\ disk' = CloseDropped(disk, cache', handles)
                       ELSE /\ cache' = [cache EXCEPT ![ino].lookup_count = current_count]
                            /\ UNCHANGED <<trash, disk>>
                    /\ last' = Effect(h, 2, <<>>, <<"forget">>)
                    /\ kernel_nlookup' = KernelNlookup(ino, 0 - nlookup)
                    /\ UNCHANGED <<sessVars, handles, debug_assertions, ino_pool, iter, dir_stream, panicked>>

\* the ino the backing file system gives a new node: one no live node has
FreshIno == CHOOSE i \in ino_pool \ DOMAIN disk : \A j \in ino_pool \ DOMAIN disk : i <= j

\* MemoryFilesystem::helper_create_node with create_child_dir /
\* create_child_file (mkdirat, or openat with O_CREAT | O_EXCL | O_RDWR)
CreateNode(h, n, method, parent, name, kind) ==
    /\ ToFilesystem(h, n)
    /\ IF parent \notin DOMAIN cache \/ cache[parent].kind # "DIR"
       THEN Panic(h, n, method)
       ELSE IF HasEntry(cache[parent], name)
       THEN /\ last' = Effect(h, n, <<ReplyError(h.unique, EEXIST)>>, <<method>>)
            /\ UNCHANGED <<sessVars, fsVars, debug_assertions, ino_pool, iter, kernel_nlookup, dir_stream, panicked>>
       ELSE IF ~DiskDirAlive(parent) \/ DiskChild(parent, name) # 0
       THEN Panic(h, n, method)
       ELSE /\ ino_pool \ DOMAIN disk # {}
            /\ LET new_ino   == FreshIno
                   new_disk  == Put(disk, new_ino, DiskNode(kind, parent, name, <<>>))
                   new_inode == IF kind = "DIR"
                                THEN DirNode(new_ino, parent, name,
                                             StatSize(new_disk, new_ino), NoEntries)
                                ELSE FileNode(new_ino, parent, name,
                                              StatSize(new_disk, new_ino), TRUE)
                   new_entry == DirEntry(new_ino, IF kind = "DIR" THEN "Directory" ELSE "File")
               IN /\ disk' = new_disk
                  /\ cache' = Put([cache EXCEPT ![parent].entries = Put(@, name, new_entry)],
                                  new_ino, new_inode)
                  /\ last' = Effect(h, n, 
                               <<ReplyOk(h.unique, "entry", EntryOut(new_inode))>>, <<method>>)
                  /\ kernel_nlookup' = KernelNlookup(new_ino, 1)
            /\ UNCHANGED <<sessVars, trash, handles, debug_assertions, ino_pool, iter, dir_stream, panicked>>

\* MemoryFilesystem::mknod
MkNod(h, parent, name) == CreateNode(h, 8, "mknod", parent, name, "FILE")

\* MemoryFilesystem::mkdir
MkDir(h, parent, name) == CreateNode(h, 9, "mkdir", parent, name, "DIR")

\* INode::unlink_entry fails on the backing directory: unlinkat with
\* RemoveDir needs an empty directory, without it a node that is no directory
UnlinkatFails(p, name, entry_type) ==
    LET i == DiskChild(p, name)
    IN \/ i = 0
       \/ entry_type = "Directory"
          /\ (disk[i].kind # "DIR" \/ \E j \in DOMAIN disk : disk[j].linked /\ disk[j].parent = i)
       \/ entry_type = "File" /\ disk[i].kind = "DIR"

\* MemoryFilesystem::helper_may_deferred_delete_node panics
MayDeferredDeletePanics(ino) ==
    \/ ino \notin DOMAIN cache
    \/ LET inode == cache[ino]
           p     == inode.parent
       IN \/ p \notin DOMAIN cache
          \/ cache[p].kind # "DIR"
          \/ ~HasEntry(cache[p], inode.name)
          \/ UnlinkatFails(p, inode.name, cache[p].entries[inode.name].entry_type)
          \/ debug_assertions /\ cache[p].entries[inode.name].ino # ino
          \/ debug_assertions /\ inode.lookup_count < 0
          \/ debug_assertions /\ inode.lookup_count > 0 /\ ino \in trash

\* a removal that never defers: the inode leaves the cache at once
MayDeferredDeleteNever(ino) ==
    LET inode    == cache[ino]
        p        == inode.parent
        unlinked == [disk EXCEPT ![DiskChild(p, inode.name)].linked = FALSE]
        removed  == [cache EXCEPT ![p].entries = Drop(@, inode.name)]
    IN /\ cache' = Drop(removed, ino)
       /\ UNCHANGED trash
       /\ disk' = CloseDropped(unlinked, cache', handles)

\* a deferred delete that takes the entry away and leaves the inode in the
\* cache without putting it into the trash
MayDeferredDeleteNoTrash(ino) ==
    LET inode    == cache[ino]
        p        == inode.parent
        unlinked == [disk EXCEPT ![DiskChild(p, inode.name)].linked = FALSE]
    IN /\ cache' = [cache EXCEPT ![p].entries = Drop(@, inode.name)]
       /\ UNCHANGED trash
       /\ disk' = CloseDropped(unlinked, cache', handles)

\* a deferred delete that puts the inode into the trash and leaves its entry
\* in the parent's map
MayDeferredDeleteKeepEntry(ino) ==
    LET inode    == cache[ino]
        p        == inode.parent
        unlinked == [disk EXCEPT ![DiskChild(p, inode.name)].linked = FALSE]
    IN /\ IF inode.lookup_count > 0
          THEN /\ trash' = trash \cup {ino}
               /\ cache' = cache
          ELSE /\ cache' = Drop([cache EXCEPT ![p].entries = Drop(@, inode.name)], ino)
               /\ UNCHANGED trash
       /\ disk' = CloseDropped(unlinked, cache', handles)

\* MemoryFilesystem::helper_may_deferred_delete_node: the entry leaves the
\* parent's map and the backing directory; the inode goes to the trash while
\* its lookup count is positive, and leaves the cache otherwise
MayDeferredDelete(ino) ==
    LET inode    == cache[ino]
        p        == inode.parent
        unlinked == [disk EXCEPT ![DiskChild(p, inode.name)].linked = FALSE]
        removed  == [cache EXCEPT ![p].entries = Drop(@, inode.name)]
    IN /\ IF inode.lookup_count > 0
          THEN /\ trash' = trash \cup {ino}
               /\ cache' = removed
          ELSE /\ cache' = Drop(removed, ino)
               /\ UNCHANGED trash
       /\ disk' = CloseDropped(unlinked, cache', handles)

\* MemoryFilesystem::helper_remove_node
RemoveNode(h, n, method, parent, name, node_kind) ==
    /\ ToFilesystem(h, n)
    /\ IF parent \notin DOMAIN cache \/ cache[parent].kind # "DIR"
       THEN Panic(h, n, method)
       ELSE IF ~HasEntry(cache[parent], name)
       THEN /\ last' = Effect(h, n, <<ReplyError(h.unique, ENOENT)>>, <<method>>)
            /\ UNCHANGED <<sessVars, fsVars, debug_assertions, ino_pool, iter, kernel_nlookup, dir_stream, panicked>>
       ELSE LET node_ino == cache[parent].entries[name].ino
            IN IF node_ino \notin DOMAIN cache
               THEN Panic(h, n, method)
               ELSE IF node_kind = "DIR" /\ ~IsEmpty(cache[node_ino])
               THEN /\ last' = Effect(h, n, <<ReplyError(h.unique, ENOTEMPTY)>>,
                                      <<method>>)
                    /\ UNCHANGED <<sessVars, fsVars, debug_assertions, ino_pool, iter, kernel_nlookup, dir_stream, panicked>>
               ELSE IF \/ debug_assertions /\ cache[node_ino].name # name
                       \/ debug_assertions /\ cache[node_ino].parent # parent
                       \/ debug_assertions /\ cache[node_ino].kind # node_kind
                       \/ MayDeferredDeletePanics(node_ino)
               THEN Panic(h, n, method)
               ELSE /\ MayDeferredDelete(node_ino)
                    /\ last' = Effect(h, n, <<ReplyOk(h.unique, "empty", <<>>)>>,
                                      <<method>>)
                    /\ UNCHANGED <<sessVars, handles, debug_assertions, ino_pool, iter, kernel_nlookup, dir_stream, panicked>>

\* an unlink that reports success whatever the name
UnlinkOk(h, parent, name) ==
    /\ ToFilesystem(h, 10)
    /\ last' = Effect(h, 10, <<ReplyOk(h.unique, "empty", <<>>)>>, <<"unlink">>)
    /\ UNCHANGED <<sessVars, fsVars, debug_assertions, ino_pool, iter, kernel_nlookup, dir_stream, panicked>>

\* MemoryFilesystem::unlink
Unlink(h, parent, name) == RemoveNode(h, 10, "unlink", parent, name, "FILE")

\* MemoryFilesystem::rmdir
RmDir(h, parent, name) == RemoveNode(h, 11, "rmdir", parent, name, "DIR")

\* fuse_setattr_in::mode values: permission bits 1 with the type bits of a
\* directory, of a regular file, or of neither
SetattrModes == {[kind |-> k, perm |-> 1] : k \in {"DIR", "FILE", "OTHER"}}

\* fuse_setattr_in::valid values
ValidMasks == {0, FATTR_MODE, FATTR_UID, FATTR_SIZE, FATTR_FH, FATTR_SIZE + FATTR_FH,
               FATTR_MODE + FATTR_UID + FATTR_SIZE + FATTR_FH}

\* fuse_setattr_in: every field is in the message, valid tells which ones
\* count (gid, atime and mtime are handled like uid and are left out)
SetattrIns == [valid : ValidMasks, mode : SetattrModes, uid : {1}, size : {1}, fh : {1}]

\* Request::dispatch (SetAttr): the valid mask turned into options, <<>> is
\* None and <<v>> is Some(v)
SetattrParam(arg) ==
    [mode |-> IF BitAnd(arg.valid, FATTR_MODE) = 0 THEN <<>> ELSE <<arg.mode>>,
     uid  |-> IF BitAnd(arg.valid, FATTR_UID) = 0 THEN <<>> ELSE <<arg.uid>>,
     size |-> IF BitAnd(arg.valid, FATTR_SIZE) = 0 THEN <<>> ELSE <<arg.size>>,
     fh   |-> IF BitAnd(arg.valid, FATTR_FH) = 0 THEN <<>> ELSE <<arg.fh>>]

\* FsSetattrParam values
SetattrParams == {SetattrParam(arg) : arg \in SetattrIns}

\* FsSetattrParam values that leave mode and uid alone
SetattrSizeParams == {p \in SetattrParams : p.mode = <<>> /\ p.uid = <<>>}

\* a setattr_helper that takes any option of the request, fh too, as a
\* reason to stamp ctime and reply the attributes
SetattrPresentAny(param) ==
    param.mode # <<>> \/ param.uid # <<>> \/ param.size # <<>> \/ param.fh # <<>>

\* setattr_helper: the options that make it stamp ctime and reply the
\* attributes (fh is not among them)
SetattrPresent(param) == param.mode # <<>> \/ param.uid # <<>> \/ param.size # <<>>

\* MemoryFilesystem::setattr with INode::set_attr; SystemTime::now() is the
\* time of the request, which the model tells by its unique id
SetAttr(h, ino, param) ==
    /\ ToFilesystem(h, 4)
    /\ IF ino \notin DOMAIN cache
       THEN Panic(h, 4, "setattr")
       ELSE IF /\ param.mode # <<>>
               /\ \/ param.mode[1].kind = "OTHER"
                  \/ debug_assertions /\ param.mode[1].kind # cache[ino].kind
       THEN Panic(h, 4, "setattr")
       ELSE LET merged == [cache[ino] EXCEPT
                             !.perm = IF param.mode # <<>> THEN param.mode[1].perm ELSE @,
                             !.uid  = IF param.uid # <<>> THEN param.uid[1] ELSE @,
                             !.size = IF param.size # <<>> THEN param.size[1] ELSE @]
                attr   == IF SetattrPresent(param) THEN [merged EXCEPT !.ctime = h.unique]
                          ELSE merged
            IN /\ cache' = [cache EXCEPT ![ino] = attr]
               /\ last' = Effect(h, 4,
                            IF SetattrPresent(param)
                            THEN <<ReplyOk(h.unique, "attr", AttrOf(attr))>>
                            ELSE <<ReplyError(h.unique, ENODATA)>>,
                            <<"setattr">>)
               /\ UNCHANGED <<sessVars, trash, disk, handles, debug_assertions, ino_pool, iter, kernel_nlookup, dir_stream, panicked>>

RECURSIVE DiskUnder(_, _)
\* directory d of the backing tree is a, or lies below a
DiskUnder(d, a) ==
    IF d = a THEN TRUE
    ELSE IF d \notin DOMAIN disk \/ ~disk[d].linked \/ disk[d].parent = 0 THEN FALSE
    ELSE DiskUnder(disk[d].parent, a)

\* INode::helper_move_file: renameat fails when a directory is gone, the
\* old name is missing, or a directory would move below itself
RenameatFails(parent, name, new_parent) ==
    \/ ~DiskDirAlive(parent)
    \/ ~DiskDirAlive(new_parent)
    \/ DiskChild(parent, name) = 0
    \/ DiskUnder(new_parent, DiskChild(parent, name))

\* renameat on the backing tree; a node it replaces loses its link
Renameat(parent, name, new_parent, newname) ==
    LET moved  == DiskChild(parent, name)
        target == DiskChild(new_parent, newname)
    IN [i \in DOMAIN disk |->
          IF i = moved THEN [disk[i] EXCEPT !.parent = new_parent, !.name = newname]
          ELSE IF i = target THEN [disk[i] EXCEPT !.linked = FALSE]
          ELSE disk[i]]

\* a rename that does not look for the new name in the new parent's map
\* and puts the moved entry over whatever is there
RenameNoCheck(h, parent, name, new_parent, newname) ==
    /\ ToFilesystem(h, 12)
    /\ parent \in DOMAIN cache /\ new_parent \in DOMAIN cache
    /\ cache[parent].kind = "DIR" /\ cache[new_parent].kind = "DIR"
    /\ HasEntry(cache[parent], name)
    /\ LET old_entry == cache[parent].entries[name]
           removed   == [cache EXCEPT ![parent].entries = Drop(@, name)]
       IN cache' = [removed EXCEPT ![new_parent].entries = Put(@, newname, old_entry)]
    /\ last' = Effect(h, 12, <<ReplyOk(h.unique, "empty", <<>>)>>, <<"rename">>)
    /\ UNCHANGED <<sessVars, trash, disk, handles, debug_assertions, ino_pool, iter, kernel_nlookup, dir_stream, panicked>>

\* a rename that moves the entry and leaves the name stored in the inode
RenameKeepsName(h, parent, name, new_parent, newname) ==
    /\ ToFilesystem(h, 12)
    /\ IF parent \notin DOMAIN cache \/ cache[parent].kind # "DIR"
       THEN Panic(h, 12, "rename")
       ELSE IF ~HasEntry(cache[parent], name)
       THEN /\ last' = Effect(h, 12, <<ReplyError(h.unique, ENOENT)>>, <<"rename">>)
            /\ UNCHANGED <<sessVars, fsVars, debug_assertions, ino_pool, iter, kernel_nlookup, dir_stream, panicked>>
       ELSE IF \/ cache[parent].entries[name].ino \notin DOMAIN cache
               \/ new_parent \notin DOMAIN cache
               \/ cache[new_parent].kind # "DIR"
       THEN Panic(h, 12, "rename")
       ELSE IF HasEntry(cache[new_parent], newname)
       THEN /\ last' = Effect(h, 12, <<ReplyError(h.unique, EEXIST)>>, <<"rename">>)
            /\ UNCHANGED <<sessVars, fsVars, debug_assertions, ino_pool, iter, kernel_nlookup, dir_stream, panicked>>
       ELSE IF RenameatFails(parent, name, new_parent)
       THEN Panic(h, 12, "rename")
       ELSE LET old_entry == cache[parent].entries[name]
                child     == [cache EXCEPT ![old_entry.ino].parent = new_parent]
                removed   == [child EXCEPT ![parent].entries = Drop(@, name)]
            IN /\ cache' = [removed EXCEPT ![new_parent].entries = Put(@, newname, old_entry)]
               /\ disk' = CloseDropped(Renameat(parent, name, new_parent, newname),
                                       cache', handles)
               /\ last' = Effect(h, 12, <<ReplyOk(h.unique, "empty", <<>>)>>,
                                 <<"rename">>)
               /\ UNCHANGED <<sessVars, trash, handles, debug_assertions, ino_pool, iter, kernel_nlookup, dir_stream, panicked>>

\* a rename that leaves the old entry in the old parent's map
RenameCopies(h, parent, name, new_parent, newname) ==
    /\ ToFilesystem(h, 12)
    /\ IF parent \notin DOMAIN cache \/ cache[parent].kind # "DIR"
       THEN Panic(h, 12, "rename")
       ELSE IF ~HasEntry(cache[parent], name)
       THEN /\ last' = Effect(h, 12, <<ReplyError(h.unique, ENOENT)>>, <<"rename">>)
            /\ UNCHANGED <<sessVars, fsVars, debug_assertions, ino_pool, iter, kernel_nlookup, dir_stream, panicked>>
       ELSE IF \/ cache[parent].entries[name].ino \notin DOMAIN cache
               \/ new_parent \notin DOMAIN cache
               \/ cache[new_parent].kind # "DIR"
       THEN Panic(h, 12, "rename")
       ELSE IF HasEntry(cache[new_parent], newname)
       THEN /\ last' = Effect(h, 12, <<ReplyError(h.unique, EEXIST)>>, <<"rename">>)
            /\ UNCHANGED <<sessVars, fsVars, debug_assertions, ino_pool, iter, kernel_nlookup, dir_stream, panicked>>
       ELSE IF RenameatFails(parent, name, new_parent)
       THEN Panic(h, 12, "rename")
       ELSE LET old_entry == cache[parent].entries[name]
                child     == [cache EXCEPT ![old_entry.ino].parent = new_parent,
                                            ![old_entry.ino].name = newname]
                removed   == child
            IN /\ cache' = [removed EXCEPT ![new_parent].entries = Put(@, newname, old_entry)]
               /\ disk' = CloseDropped(Renameat(parent, name, new_parent, newname),
                                       cache', handles)
               /\ last' = Effect(h, 12, <<ReplyOk(h.unique, "empty", <<>>)>>,
                                 <<"rename">>)
               /\ UNCHANGED <<sessVars, trash, handles, debug_assertions, ino_pool, iter, kernel_nlookup, dir_stream, panicked>>

\* MemoryFilesystem::rename
Rename(h, parent, name, new_parent, newname) ==
    /\ ToFilesystem(h, 12)
    /\ IF parent \notin DOMAIN cache \/ cache[parent].kind # "DIR"
       THEN Panic(h, 12, "rename")
       ELSE IF ~HasEntry(cache[parent], name)
       THEN /\ last' = Effect(h, 12, <<ReplyError(h.unique, ENOENT)>>, <<"rename">>)
            /\ UNCHANGED <<sessVars, fsVars, debug_assertions, ino_pool, iter, kernel_nlookup, dir_stream, panicked>>
       ELSE IF \/ cache[parent].entries[name].ino \notin DOMAIN cache
               \/ new_parent \notin DOMAIN cache
               \/ cache[new_parent].kind # "DIR"
       THEN Panic(h, 12, "rename")
       ELSE IF HasEntry(cache[new_parent], newname)
       THEN /\ last' = Effect(h, 12, <<ReplyError(h.unique, EEXIST)>>, <<"rename">>)
            /\ UNCHANGED <<sessVars, fsVars, debug_assertions, ino_pool, iter, kernel_nlookup, dir_stream, panicked>>
       ELSE IF RenameatFails(parent, name, new_parent)
       THEN Panic(h, 12, "rename")
       ELSE LET old_entry == cache[parent].entries[name]
                child     == [cache EXCEPT ![old_entry.ino].parent = new_parent,
                                            ![old_entry.ino].name = newname]
                removed   == [child EXCEPT ![parent].entries = Drop(@, name)]
            IN /\ cache' = [removed EXCEPT ![new_parent].entries = Put(@, newname, old_entry)]
               /\ disk' = CloseDropped(Renameat(parent, name, new_parent, newname),
                                       cache', handles)
               /\ last' = Effect(h, 12, <<ReplyOk(h.unique, "empty", <<>>)>>,
                                 <<"rename">>)
               /\ UNCHANGED <<sessVars, trash, handles, debug_assertions, ino_pool, iter, kernel_nlookup, dir_stream, panicked>>

\* flags of an open or opendir request
OpenFlags == {O_RDONLY, O_RDWR}

\* the descriptor number dup gives: the lowest one not in use
FreshFh == CHOOSE fh \in 1..MaxHandles \ DOMAIN handles :
              \A g \in 1..MaxHandles \ DOMAIN handles : fh <= g

\* an open that hands out the descriptor and does not count it
OpenInoUncounted(h, n, method, ino, flags) ==
    /\ ToFilesystem(h, n)
    /\ IF ino \notin DOMAIN cache
       THEN Panic(h, n, method)
       ELSE /\ 1..MaxHandles \ DOMAIN handles # {}
            /\ handles' = Put(handles, FreshFh, [ino |-> ino, rdwr |-> cache[ino].rdwr])
            /\ last' = Effect(h, n,
                         <<ReplyOk(h.unique, "open", [fh |-> FreshFh, flags |-> flags])>>,
                         <<method>>)
            /\ UNCHANGED <<sessVars, cache, trash, disk, debug_assertions, ino_pool, iter, kernel_nlookup, dir_stream, panicked>>

\* MemoryFilesystem::open and MemoryFilesystem::opendir with INode::dup_fd:
\* the new descriptor shares the access mode of the inode's descriptor
OpenIno(h, n, method, ino, flags) ==
    /\ ToFilesystem(h, n)
    /\ IF ino \notin DOMAIN cache
       THEN Panic(h, n, method)
       ELSE /\ 1..MaxHandles \ DOMAIN handles # {}
            /\ cache[ino].open_count <= MaxHandles
            /\ handles' = Put(handles, FreshFh, [ino |-> ino, rdwr |-> cache[ino].rdwr])
            /\ cache' = [cache EXCEPT ![ino].open_count = @ + 1]
            /\ last' = Effect(h, n, 
                         <<ReplyOk(h.unique, "open", [fh |-> FreshFh, flags |-> flags])>>,
                         <<method>>)
            /\ UNCHANGED <<sessVars, trash, disk, debug_assertions, ino_pool, iter, kernel_nlookup, dir_stream, panicked>>

\* MemoryFilesystem::open
Open(h, ino, flags) == OpenIno(h, 14, "open", ino, flags)

\* MemoryFilesystem::opendir
OpenDir(h, ino, flags) == OpenIno(h, 27, "opendir", ino, flags)

\* a release that closes the handle and leaves the open count as it is
ReleaseInoKeepCount(h, n, method, ino, fh) ==
    /\ ToFilesystem(h, n)
    /\ IF ino \notin DOMAIN cache \/ fh \notin DOMAIN handles
       THEN Panic(h, n, method)
       ELSE /\ handles' = Drop(handles, fh)
            /\ disk' = CloseDropped(disk, cache, handles')
            /\ last' = Effect(h, n, <<ReplyOk(h.unique, "empty", <<>>)>>, <<method>>)
            /\ UNCHANGED <<sessVars, cache, trash, debug_assertions, ino_pool, iter, kernel_nlookup, dir_stream, panicked>>

\* MemoryFilesystem::release and MemoryFilesystem::releasedir: close(fh),
\* reply, dec_open_count
ReleaseIno(h, n, method, ino, fh) ==
    /\ ToFilesystem(h, n)
    /\ IF ino \notin DOMAIN cache \/ fh \notin DOMAIN handles
       THEN Panic(h, n, method)
       ELSE /\ cache[ino].open_count > 0 - MaxDeficit
            /\ handles' = Drop(handles, fh)
            /\ cache' = [cache EXCEPT ![ino].open_count = @ - 1]
            /\ disk' = CloseDropped(disk, cache', handles')
            /\ last' = Effect(h, n, <<ReplyOk(h.unique, "empty", <<>>)>>, <<method>>)
            /\ UNCHANGED <<sessVars, trash, debug_assertions, ino_pool, iter, kernel_nlookup, dir_stream, panicked>>

\* MemoryFilesystem::release
Release(h, ino, fh) == ReleaseIno(h, 18, "release", ino, fh)

\* MemoryFilesystem::releasedir
ReleaseDir(h, ino, fh) == ReleaseIno(h, 29, "releasedir", ino, fh)

\* INode::helper_load_file_data: read into a buffer reserved for attr.size
\* bytes (no file of the model is longer than that when it is loaded)
LoadFileData(inode) == SubSeq(disk[inode.ino].content, 1,
                              Min(inode.size, Len(disk[inode.ino].content)))

\* a read_helper that replies the whole buffer from its start
ReadDataWhole(content, offset, size) == content

\* the bytes read_helper replies for a request at offset of size bytes
ReadData(content, offset, size) ==
    SubSeq(content, offset + 1, Min(offset + size, Len(content)))

\* INode::read_file: the buffer handed to read_helper, loaded first when
\* need_load_data says so
ReadFile(ino) ==
    IF NeedLoadData(cache[ino]) THEN LoadFileData(cache[ino]) ELSE cache[ino].data

\* read_helper: the reply to a read of size bytes at offset of the buffer
ReadReplies(u, content, offset, size) ==
    IF offset < Len(content)
    THEN <<ReplyOk(u, "data", ReadData(content, offset, size))>>
    ELSE <<ReplyError(u, EINVAL)>>

\* MemoryFilesystem::read with INode::read_file
Read(h, ino, offset, size) ==
    /\ ToFilesystem(h, 15)
    /\ IF ino \notin DOMAIN cache \/ cache[ino].kind # "FILE"
       THEN Panic(h, 15, "read")
       ELSE LET content == ReadFile(ino)
            IN IF debug_assertions /\ NeedLoadData(cache[ino]) /\ Len(content) # cache[ino].size
               THEN Panic(h, 15, "read")
               ELSE /\ cache' = [cache EXCEPT ![ino].data = content]
                    /\ last' = Effect(h, 15, ReadReplies(h.unique, content, offset, size),
                                      <<"read">>)
                    /\ UNCHANGED <<sessVars, trash, disk, handles, debug_assertions, ino_pool, iter, kernel_nlookup, dir_stream, panicked>>

\* n zero bytes
Zeros(n) == [i \in 1..n |-> 0]

\* a write_file that appends the data to the buffer wherever the offset is
WriteBufferAppend(buf, offset, data) == buf \o data

\* INode::write_file on the buffer: cut at offset or pad with zeros up to
\* offset, then append the data
WriteBuffer(buf, offset, data) ==
    (IF Len(buf) > offset THEN SubSeq(buf, 1, offset)
     ELSE buf \o Zeros(offset - Len(buf))) \o data

\* pwrite on the backing file: the bytes at offset are replaced, a gap is
\* filled with zeros, the bytes behind the data stay
Pwrite(content, offset, data) ==
    LET n == IF Len(content) > offset + Len(data) THEN Len(content) ELSE offset + Len(data)
    IN [i \in 1..n |->
          IF i > offset /\ i <= offset + Len(data) THEN data[i - offset]
          ELSE IF i <= Len(content) THEN content[i]
          ELSE 0]

\* data of a write request
WriteData == {<<1>>}

\* data of a write request where the bytes written matter
WriteDataWide == {<<1>>, <<2>>, <<1, 2>>}

\* MemoryFilesystem::write with INode::write_file
Write(h, ino, fh, offset, data) ==
    /\ ToFilesystem(h, 16)
    /\ IF \/ ino \notin DOMAIN cache
          \/ cache[ino].kind # "FILE"
          \/ fh \notin DOMAIN handles
          \/ ~handles[fh].rdwr
       THEN Panic(h, 16, "write")
       ELSE /\ offset + Len(data) <= MaxFileLen
            /\ LET file_data == WriteBuffer(cache[ino].data, offset, data)
               IN cache' = [cache EXCEPT ![ino].data = file_data, ![ino].size = Len(file_data)]
            /\ disk' = [disk EXCEPT ![handles[fh].ino].content = Pwrite(@, offset, data)]
            /\ last' = Effect(h, 16, <<ReplyOk(h.unique, "write", Len(data))>>, <<"write">>)
            /\ UNCHANGED <<sessVars, trash, handles, debug_assertions, ino_pool, iter, kernel_nlookup, dir_stream, panicked>>

\* byte length of the name a number stands for: name 1 is a long name that
\* sorts before the short names 2, 3, ...
NameLen(name) == IF name = 1 THEN 9 ELSE 1

\* size_of::<fuse_dirent>()
DirentHeaderLen == 24

\* bytes one entry takes in a directory reply: header and name, padded to 8
EntSize(name) == ((DirentHeaderLen + NameLen(name) + 7) \div 8) * 8

\* the names of a directory map from the last to the first
RECURSIVE SortedNamesDesc(_)
SortedNamesDesc(S) ==
    IF S = {} THEN <<>>
    ELSE LET m == CHOOSE x \in S : \A y \in S : x >= y
         IN <<m>> \o SortedNamesDesc(S \ {m})

\* the names of a directory map in the order the BTreeMap iterates them
RECURSIVE SortedNames(_)
SortedNames(S) ==
    IF S = {} THEN <<>>
    ELSE LET m == CHOOSE x \in S : \A y \in S : x <= y
         IN <<m>> \o SortedNames(S \ {m})

\* ReplyDirectory::add over the entries readdir_helper visits, from index i
\* (counted from 0 over the whole map): an entry that does not fit the
\* buffer is not added
RECURSIVE ReaddirAdd(_, _, _, _, _, _)
ReaddirAdd(entries, names, i, offset, size, buf) ==
    IF i >= Len(names) THEN buf
    ELSE LET name == names[i + 1]
             ent  == [ino |-> entries[name].ino, off |-> offset + i + 1,
                      kind |-> ConvertNodeType(entries[name].entry_type), name |-> name]
             used == IF buf = <<>> THEN 0
                     ELSE LET Sum[k \in 0..Len(buf)] ==
                                  IF k = 0 THEN 0 ELSE Sum[k - 1] + EntSize(buf[k].name)
                          IN Sum[Len(buf)]
         IN ReaddirAdd(entries, names, i + 1, offset, size,
                       IF used + EntSize(name) > size THEN buf ELSE Append(buf, ent))

\* buffer sizes of a readdir request
ReaddirSizes == {32, 4096}

\* MemoryFilesystem::readdir with INode::read_dir
ReadDir(h, ino, offset, size) ==
    /\ ToFilesystem(h, 28)
    /\ IF ino \notin DOMAIN cache \/ cache[ino].kind # "DIR"
       THEN Panic(h, 28, "readdir")
       ELSE LET data == IF NeedLoadData(cache[ino]) THEN LoadDirData(disk, ino)
                        ELSE cache[ino].entries
            IN /\ cache' = [cache EXCEPT ![ino].entries = data]
               /\ last' = Effect(h, 28,
                            <<ReplyOk(h.unique, "directory",
                                      ReaddirAdd(data, SortedNames(DOMAIN data), offset,
                                                 offset, size, <<>>))>>,
                            <<"readdir">>)
               /\ dir_stream' = ReadStream(ino, offset, last'.replies[1].payload)
               /\ UNCHANGED <<sessVars, trash, disk, handles, debug_assertions, ino_pool, iter, kernel_nlookup, panicked>>

\* the messages the session handles without a method of MemoryFilesystem
NextSession ==
    \E h \in Headers :
        \/ \E arg \in InitIns, res \in FsInitResults :
              DispatchInit(h, arg.major, arg.minor, arg.max_readahead, arg.flags, res)
        \/ \E n \in Opcodes : DispatchBeforeInit(h, n)
        \/ DispatchDestroy(h)
        \/ \E n \in Opcodes : DispatchAfterDestroy(h, n)
        \/ DispatchInterrupt(h)
        \/ \E n \in Opcodes : DispatchNoImplementation(h, n)
        \/ \E n \in Opcodes : DispatchDefault(h, n)
        \/ \E n \in Opcodes : SessionParseError(h, n)

\* the messages served by the methods of MemoryFilesystem that work on the
\* name space
NextNamespace ==
    \E h \in Headers :
        \/ \E ino \in Inos : GetAttr(h, ino)
        \/ \E parent \in Inos, name \in Names : Lookup(h, parent, name)
        \/ \E ino \in Inos, nlookup \in 1..MaxForget : Forget(h, ino, nlookup)
        \/ \E parent \in Inos, name \in Names : MkNod(h, parent, name)
        \/ \E parent \in Inos, name \in Names : MkDir(h, parent, name)
        \/ \E parent \in Inos, name \in Names : Unlink(h, parent, name)
        \/ \E parent \in Inos, name \in Names : RmDir(h, parent, name)
        \/ \E parent \in Inos, name \in Names, new_parent \in Inos, newname \in Names :
              Rename(h, parent, name, new_parent, newname)

\* the messages served by the methods of MemoryFilesystem that work on
\* attributes, handles and content
NextData ==
    \E h \in Headers :
        \/ \E ino \in Inos, param \in SetattrParams : SetAttr(h, ino, param)
        \/ \E ino \in Inos, flags \in OpenFlags : Open(h, ino, flags)
        \/ \E ino \in Inos, fh \in 1..MaxHandles : Release(h, ino, fh)
        \/ \E ino \in Inos, flags \in OpenFlags : OpenDir(h, ino, flags)
        \/ \E ino \in Inos, fh \in 1..MaxHandles : ReleaseDir(h, ino, fh)
        \/ \E ino \in Inos, offset \in 0..MaxFileLen, size \in 1..MaxFileLen :
              Read(h, ino, offset, size)
        \/ \E ino \in Inos, fh \in 1..MaxHandles, offset \in 0..MaxFileLen, data \in WriteData :
              Write(h, ino, fh, offset, data)
        \/ \E ino \in Inos, offset \in 0..MaxName, size \in ReaddirSizes :
              ReadDir(h, ino, offset, size)

NextFilesystem == NextNamespace \/ NextData

Next == NextSession \/ NextFilesystem

\* the whole program, under messages of any content
Spec == Init /\ [][Next]_vars

\* node ids the kernel holds: the root and the inodes it looked up and has
\* not forgotten
Known == {i \in DOMAIN cache : i = FUSE_ROOT_ID \/ cache[i].lookup_count > 0}

\* handles the kernel holds on inode ino
HandlesOf(ino) == {fh \in DOMAIN handles : handles[fh].ino = ino}

\* the messages of a kernel that keeps to the protocol: it names node ids
\* and handles it holds, forgets no more lookups than it made and no inode
\* it has open, opens files with open and directories with opendir
NextKernel ==
    \E h \in Headers :
        \/ \E n \in Opcodes : DispatchDefault(h, n)
        \/ \E ino \in Known : GetAttr(h, ino)
        \/ \E parent \in Known, name \in Names : Lookup(h, parent, name)
        \/ \E ino \in Known \ {FUSE_ROOT_ID} :
              \E nlookup \in 1..cache[ino].lookup_count :
                 HandlesOf(ino) = {} /\ Forget(h, ino, nlookup)
        \/ \E parent \in Known, name \in Names : MkNod(h, parent, name)
        \/ \E parent \in Known, name \in Names : MkDir(h, parent, name)
        \/ \E parent \in Known, name \in Names : Unlink(h, parent, name)
        \/ \E parent \in Known, name \in Names : RmDir(h, parent, name)
        \/ \E parent \in Known, name \in Names, new_parent \in Known, newname \in Names :
              Rename(h, parent, name, new_parent, newname)
        \/ \E ino \in Known \ {FUSE_ROOT_ID}, param \in SetattrSizeParams :
              SetAttr(h, ino, param)
        \/ \E ino \in Known, flags \in OpenFlags :
              cache[ino].kind = "FILE" /\ Open(h, ino, flags)
        \/ \E ino \in Known, flags \in OpenFlags :
              cache[ino].kind = "DIR" /\ OpenDir(h, ino, flags)
        \/ \E ino \in Known : \E fh \in HandlesOf(ino) :
              cache[ino].kind = "FILE" /\ Release(h, ino, fh)
        \/ \E ino \in Known : \E fh \in HandlesOf(ino) :
              cache[ino].kind = "DIR" /\ ReleaseDir(h, ino, fh)
        \/ \E ino \in Known : \E fh \in HandlesOf(ino), offset \in 0..MaxFileLen,
              size \in 1..MaxFileLen : Read(h, ino, offset, size)
        \/ \E ino \in Known : \E fh \in HandlesOf(ino), offset \in 0..MaxFileLen,
              data \in WriteData : Write(h, ino, fh, offset, data)
        \/ \E ino \in Known : \E fh \in HandlesOf(ino), offset \in 0..MaxName,
              size \in ReaddirSizes : ReadDir(h, ino, offset, size)

\* the session after the kernel's INIT of version 7.6 was accepted, the
\* backing file system having the inode numbers pool for its nodes
MountedWith(pool, followed, files, stream) ==
    /\ ino_pool = pool
    /\ iter = IteratorNew(<<>>, 0)
    /\ kernel_nlookup = [i \in followed |-> 0]
    /\ dir_stream = stream
    /\ initialized = TRUE
    /\ destroyed = FALSE
    /\ proto_major = 7
    /\ proto_minor = 6
    /\ \E pre \in SUBSET files :
         disk = [i \in {FUSE_ROOT_ID} \cup {f.ino : f \in pre} |->
                   IF i = FUSE_ROOT_ID THEN DiskNode("DIR", 0, 0, <<>>)
                   ELSE LET f == CHOOSE g \in pre : g.ino = i
                        IN DiskNode("FILE", FUSE_ROOT_ID, f.name, f.content)]
    /\ cache = [i \in {FUSE_ROOT_ID} |-> OpenRootInode(disk)]
    /\ trash = {}
    /\ handles = [fh \in {} |-> 0]
    /\ debug_assertions \in BOOLEAN
    /\ panicked = FALSE
    /\ last = Effect([buflen |-> HeaderLen, len |-> HeaderLen, unique |-> 1], 26,
                     <<ReplyOk(1, "init", InitOut(4096, 3))>>, <<"init">>)

\* the same over the usual mount directory, no directory being listed
MountedFollowing(pool, followed) == MountedWith(pool, followed, PreFiles, NoStream)

\* the same, no inode's nlookup being followed
Mounted(pool) == MountedFollowing(pool, {})

InitMounted == Mounted(Inos)

\* the mounted file system, the kernel holding no lookup of any inode yet
InitForget == MountedFollowing(Inos, Inos \ {FUSE_ROOT_ID})

\* the mounted file system with inode numbers enough for a directory that
\* holds an entry, and for two entries side by side
InitTree == Mounted(TreeInos)

\* the messages that build, list and take down a directory tree; lookup
\* counts stay as the creation left them
NextTree ==
    \E h \in Headers :
        \/ \E parent \in TreeInos, name \in Names : MkNod(h, parent, name)
        \/ \E parent \in TreeInos, name \in Names : MkDir(h, parent, name)
        \/ \E parent \in TreeInos, name \in Names : Unlink(h, parent, name)
        \/ \E parent \in TreeInos, name \in Names : RmDir(h, parent, name)
        \/ \E parent \in TreeInos, name \in Names, new_parent \in TreeInos, newname \in Names :
              Rename(h, parent, name, new_parent, newname)
        \/ \E ino \in TreeInos, offset \in 0..MaxName, size \in ReaddirSizes :
              ReadDir(h, ino, offset, size)

\* the session from its start, with the name space messages served once it
\* is initialized
SessionSpec == Init /\ [][NextSession \/ NextNamespace]_vars

\* the mounted file system under the name space messages
NamespaceSpec == InitMounted /\ [][NextNamespace]_vars

\* the mounted file system under a kernel that keeps to the protocol
KernelSpec == InitMounted /\ [][NextKernel]_vars

\* files of a mount directory with three files: one long name, two short
ListFiles ==
    {[ino |-> 2, name |-> 1, content |-> <<1>>],
     [ino |-> 3, name |-> 2, content |-> <<>>],
     [ino |-> MaxListIno, name |-> 3, content |-> <<>>]}

\* buffer sizes of the readdir requests of a listing: room for any one
\* entry, and room for all
ListSizes == {EntSize(1), 4096}

\* the file system mounted over a directory of up to three files, the kernel
\* about to list the root from offset 0
InitList ==
    MountedWith(1..MaxListIno, {}, ListFiles,
                [ino |-> FUSE_ROOT_ID, pos |-> 0, seen |-> <<>>, eof |-> FALSE])

\* a kernel that lists the root: every readdir is sent for the position the
\* last reply left, until a reply is empty; lookups and getattrs come in
\* between, and nothing changes the directory
NextList ==
    \E h \in Headers :
        \/ \E size \in ListSizes :
              ~dir_stream.eof /\ ReadDir(h, FUSE_ROOT_ID, dir_stream.pos, size)
        \/ GetAttr(h, FUSE_ROOT_ID)
        \/ \E name \in Names : Lookup(h, FUSE_ROOT_ID, name)

\* the listing of a directory by successive readdir requests
ListSpec == InitList /\ [][NextList]_vars

\* the messages of a kernel that makes, opens and removes the nodes of the
\* root, forgets the lookups it holds whether or not the inode is open,
\* and releases each handle with the inode it was opened on
NextHandle ==
    \E h \in Headers :
        \/ \E name \in Names : MkNod(h, FUSE_ROOT_ID, name)
        \/ \E name \in Names : MkDir(h, FUSE_ROOT_ID, name)
        \/ \E ino \in Known, flags \in OpenFlags :
              cache[ino].kind = "FILE" /\ Open(h, ino, flags)
        \/ \E ino \in Known, flags \in OpenFlags :
              cache[ino].kind = "DIR" /\ OpenDir(h, ino, flags)
        \/ \E name \in Names : Unlink(h, FUSE_ROOT_ID, name)
        \/ \E name \in Names : RmDir(h, FUSE_ROOT_ID, name)
        \/ \E ino \in Known \ {FUSE_ROOT_ID} :
              \E nlookup \in 1..cache[ino].lookup_count : Forget(h, ino, nlookup)
        \/ \E fh \in DOMAIN handles :
              disk[handles[fh].ino].kind = "FILE" /\ Release(h, handles[fh].ino, fh)
        \/ \E fh \in DOMAIN handles :
              disk[handles[fh].ino].kind = "DIR" /\ ReleaseDir(h, handles[fh].ino, fh)

\* the mounted file system under a kernel that may forget an open inode
HandleSpec == InitMounted /\ [][NextHandle]_vars

\* node ids the kernel holds by its own count
KernelHolds ==
    {FUSE_ROOT_ID} \cup {i \in DOMAIN kernel_nlookup : kernel_nlookup[i] > 0}

\* the name space messages of a kernel that counts the entry replies it
\* receives for an inode and forgets no more lookups than that count
NextForget ==
    \E h \in Headers :
        \/ \E parent \in KernelHolds, name \in Names : Lookup(h, parent, name)
        \/ \E ino \in KernelHolds \ {FUSE_ROOT_ID} :
              \E nlookup \in 1..kernel_nlookup[ino] : Forget(h, ino, nlookup)
        \/ \E parent \in KernelHolds, name \in Names : MkNod(h, parent, name)
        \/ \E parent \in KernelHolds, name \in Names : MkDir(h, parent, name)
        \/ \E parent \in KernelHolds, name \in Names : Unlink(h, parent, name)
        \/ \E parent \in KernelHolds, name \in Names : RmDir(h, parent, name)

\* the mounted file system under a kernel that forgets what it was given
ForgetSpec == InitForget /\ [][NextForget]_vars

\* the mounted file system under the messages that work on a directory tree
TreeSpec == InitTree /\ [][NextTree]_vars

\* the messages that make a file, find one, and work on its content
NextContent ==
    \E h \in Headers :
        \/ \E name \in Names : MkNod(h, FUSE_ROOT_ID, name)
        \/ \E name \in Names : Lookup(h, FUSE_ROOT_ID, name)
        \/ \E ino \in Inos, flags \in OpenFlags : Open(h, ino, flags)
        \/ \E ino \in Inos, fh \in 1..MaxHandles : Release(h, ino, fh)
        \/ \E ino \in Inos \ {FUSE_ROOT_ID}, param \in SetattrSizeParams :
              SetAttr(h, ino, param)
        \/ \E ino \in Inos, offset \in 0..MaxFileLen, size \in 1..MaxFileLen :
              Read(h, ino, offset, size)
        \/ \E ino \in Inos, fh \in 1..MaxHandles, offset \in 0..MaxFileLen,
              data \in WriteDataWide : Write(h, ino, fh, offset, data)

\* the mounted file system under the messages that work on file content
ContentSpec == InitMounted /\ [][NextContent]_vars

\* the messages that make a node under the root and read and set its
\* attributes
NextAttr ==
    \E h \in Headers :
        \/ \E name \in Names : MkNod(h, FUSE_ROOT_ID, name)
        \/ \E name \in Names : MkDir(h, FUSE_ROOT_ID, name)
        \/ \E ino \in Inos : GetAttr(h, ino)
        \/ \E ino \in Inos \ {FUSE_ROOT_ID}, arg \in SetattrIns :
              SetAttr(h, ino, SetattrParam(arg))

\* the mounted file system under the messages that work on attributes
AttrSpec == InitMounted /\ [][NextAttr]_vars

\* an argument iterator just made for a slice, in a session not yet
\* initialized
InitArgument ==
    /\ initialized = FALSE
    /\ destroyed = FALSE
    /\ proto_major = 0
    /\ proto_minor = 0
    /\ ino_pool = Inos
    /\ disk = [i \in {FUSE_ROOT_ID} |-> DiskNode("DIR", 0, 0, <<>>)]
    /\ cache = [i \in {FUSE_ROOT_ID} |-> OpenRootInode(disk)]
    /\ trash = {}
    /\ handles = [fh \in {} |-> 0]
    /\ debug_assertions \in BOOLEAN
    /\ panicked = FALSE
    /\ last = Effect(NoHeader, 0, <<>>, <<>>)
    /\ kernel_nlookup = [i \in {} |-> 0]
    /\ dir_stream = NoStream
    /\ \E data \in ArgSlices, base \in 0..1 : iter = IteratorNew(data, base)

\* the calls on an argument iterator
NextArgument ==
    \/ FetchAll
    \/ \E amt \in 0..(MaxArgLen + 1) : FetchBytes(amt)
    \/ \E T \in TypeLayouts : Fetch(T)
    \/ FetchStr

\* an argument iterator under any sequence of calls
ArgumentSpec == InitArgument /\ [][NextArgument]_vars

----------------------------------------------------------------------------
(* Properties *)

\* C1: a step that hands a request to the file system and does not panic
\* writes exactly one reply, and that reply carries the unique id of the
\* request; FORGET is the exception, and the only one: it writes no reply.
C1_ExactlyOneReply ==
    (~panicked /\ last.called # <<>>) =>
        IF last.op = "FUSE_FORGET"
        THEN last.replies = <<>>
        ELSE Len(last.replies) = 1 /\ last.replies[1].unique = last.hdr.unique

C1_Witness ==
    /\ ~panicked
    /\ last.op = "FUSE_WRITE"
    /\ Len(last.replies) = 1
    /\ last.replies[1].kind = "write"
    /\ last.hdr.unique = 2

\* C2: while the session is not initialized, a request other than INIT
\* (DESTROY and INTERRUPT too) is answered with EIO alone, no file system
\* method runs, and initialized and destroyed keep their values.
C2_BeforeInit ==
    [][(~initialized /\ last'.op \notin {"FUSE_INIT", "ParseError"}) =>
          /\ last'.replies = <<[unique |-> last'.hdr.unique, error |-> EIO,
                                kind |-> "error", payload |-> <<>>]>>
          /\ last'.called = <<>>
          /\ initialized' = initialized
          /\ destroyed' = destroyed
          /\ fsVars' = fsVars]_vars

C2_Witness ==
    /\ ~initialized
    /\ last.op = "FUSE_DESTROY"
    /\ Len(last.replies) = 1
    /\ last.replies[1].error = EIO

\* C3: an INIT of a version below 7.6 (major < 7, or major 7 and minor < 6)
\* is answered with EPROTO, the file system's init does not run, and
\* proto_major, proto_minor and initialized keep their values.
C3_InitRejected ==
    [][last'.op = "FUSE_INIT" =>
       \A h \in Headers, arg \in InitIns, res \in FsInitResults :
          (/\ DispatchInit(h, arg.major, arg.minor, arg.max_readahead, arg.flags, res)
           /\ (arg.major < 7 \/ (arg.major = 7 /\ arg.minor < 6))) =>
             /\ last'.replies = <<[unique |-> h.unique, error |-> EPROTO,
                                   kind |-> "error", payload |-> <<>>]>>
             /\ last'.called = <<>>
             /\ proto_major' = proto_major
             /\ proto_minor' = proto_minor
             /\ initialized' = initialized]_vars

C3_Witness ==
    /\ ~initialized
    /\ proto_major = 0
    /\ last.op = "FUSE_INIT"
    /\ Len(last.replies) = 1
    /\ last.replies[1].error = EPROTO

\* C4: an INIT of an accepted version whose file system init succeeds is
\* answered with major 7, minor 8, max_readahead the smaller of BUFFER_SIZE
\* and the kernel's, flags the kernel's masked by INIT_FLAGS and max_write
\* MAX_WRITE_SIZE; the session is initialized afterwards.
C4_InitAccepted ==
    [][last'.op = "FUSE_INIT" =>
       \A h \in Headers, arg \in InitIns :
          (/\ DispatchInit(h, arg.major, arg.minor, arg.max_readahead, arg.flags, 0)
           /\ ~(arg.major < 7 \/ (arg.major = 7 /\ arg.minor < 6))) =>
             /\ Len(last'.replies) = 1
             /\ last'.replies[1].unique = h.unique
             /\ last'.replies[1].error = 0
             /\ last'.replies[1].payload.major = FUSE_KERNEL_VERSION
             /\ last'.replies[1].payload.minor = FUSE_KERNEL_MINOR_VERSION
             /\ last'.replies[1].payload.max_readahead = Min(BUFFER_SIZE, arg.max_readahead)
             /\ last'.replies[1].payload.flags = BitAnd(arg.flags, INIT_FLAGS)
             /\ last'.replies[1].payload.max_write = MAX_WRITE_SIZE
             /\ initialized']_vars

C4_Witness ==
    /\ initialized
    /\ proto_major = 8
    /\ last.op = "FUSE_INIT"
    /\ Len(last.replies) = 1
    /\ last.replies[1].kind = "init"
    /\ last.replies[1].payload.max_readahead = BUFFER_SIZE
    /\ last.replies[1].payload.flags = 0

\* C5: once DESTROY was processed in an initialized session, destroyed
\* stays set and a request that is neither INIT nor DESTROY is answered
\* with EIO alone; no file system method runs.
C5_AfterDestroy ==
    [][(initialized /\ destroyed) =>
          /\ destroyed'
          /\ last'.op \notin {"FUSE_INIT", "FUSE_DESTROY", "ParseError"} =>
                /\ last'.replies = <<[unique |-> last'.hdr.unique, error |-> EIO,
                                      kind |-> "error", payload |-> <<>>]>>
                /\ last'.called = <<>>
                /\ fsVars' = fsVars]_vars

C5_Witness ==
    /\ initialized
    /\ destroyed
    /\ last.op = "FUSE_LOOKUP"
    /\ Len(last.replies) = 1
    /\ last.replies[1].error = EIO
    /\ DOMAIN cache # {FUSE_ROOT_ID}

\* C6: INTERRUPT in an initialized session that is not destroyed is
\* answered with ENOSYS alone; no file system method runs, and the session
\* flags and the inode cache keep their values.
C6_Interrupt ==
    [][(initialized /\ ~destroyed /\ last'.op = "FUSE_INTERRUPT") =>
          /\ last'.replies = <<[unique |-> last'.hdr.unique, error |-> ENOSYS,
                                kind |-> "error", payload |-> <<>>]>>
          /\ last'.called = <<>>
          /\ initialized' = initialized
          /\ destroyed' = destroyed
          /\ cache' = cache]_vars

C6_Witness ==
    /\ initialized
    /\ ~destroyed
    /\ last.op = "FUSE_INTERRUPT"
    /\ Len(last.replies) = 1
    /\ DOMAIN cache # {FUSE_ROOT_ID}

\* C7 (as stated): a request whose opcode names no operation parses as
\* NoImplementation, and in an initialized session that is not destroyed
\* it is answered with ENOSYS.
C7_NoImplementationENOSYS ==
    [][(initialized /\ ~destroyed /\ last'.op = "NoImplementation") =>
          last'.replies = <<[unique |-> last'.hdr.unique, error |-> ENOSYS,
                             kind |-> "error", payload |-> <<>>]>>]_vars

C9_RemoveNode ==
    [][last'.op \in {"FUSE_UNLINK", "FUSE_RMDIR"} =>
       \A h \in Headers, parent \in Inos, name \in Names :
          (/\ Unlink(h, parent, name) \/ RmDir(h, parent, name)
           /\ ~panicked'
           /\ Len(last'.replies) = 1
           /\ last'.replies[1].error = 0) =>
             LET c == cache[parent].entries[name].ino
             IN /\ last'.replies[1].kind = "empty"
                /\ last'.replies[1].unique = h.unique
                /\ name \notin DOMAIN cache'[parent].entries
                /\ IF cache[c].lookup_count > 0
                   THEN c \in trash' /\ c \in DOMAIN cache'
                   ELSE c \notin DOMAIN cache' /\ c \notin trash']_vars

C9_Witness ==
    /\ ~panicked
    /\ last.op = "FUSE_RMDIR"
    /\ Len(last.replies) = 1
    /\ last.replies[1].error = 0
    /\ trash # {}
    /\ trash \subseteq DOMAIN cache

\* C10: forget(ino, nlookup) takes exactly nlookup off the lookup count of
\* ino and writes no reply; the inode leaves the cache and the trash if the
\* count reaches zero while ino is in the trash, and in every other case
\* the keys of the cache and the trash stay as they are.
C10_Forget ==
    [][last'.op = "FUSE_FORGET" =>
       \A h \in Headers, ino \in Inos, nlookup \in 1..MaxForget :
          (Forget(h, ino, nlookup) /\ ~panicked') =>
             /\ last'.replies = <<>>
             /\ IF cache[ino].lookup_count - nlookup = 0 /\ ino \in trash
                THEN /\ DOMAIN cache' = DOMAIN cache \ {ino}
                     /\ trash' = trash \ {ino}
                ELSE /\ DOMAIN cache' = DOMAIN cache
                     /\ trash' = trash
                     /\ cache'[ino].lookup_count = cache[ino].lookup_count - nlookup]_vars

C10_Witness ==
    /\ ~panicked
    /\ last.op = "FUSE_FORGET"
    /\ DOMAIN cache = {FUSE_ROOT_ID}
    /\ cache[FUSE_ROOT_ID].lookup_count = 1
    /\ DOMAIN cache[FUSE_ROOT_ID].entries = {}
    /\ DOMAIN disk = {FUSE_ROOT_ID}

\* C11 (as stated): every inode in the cache has a lookup count and an open
\* count that are not negative, whatever messages were served.
C11_CountsNonNegative ==
    \A i \in DOMAIN cache : cache[i].lookup_count >= 0 /\ cache[i].open_count >= 0

\* C12: mknod or mkdir of a name the parent's directory map already holds
\* is answered with EEXIST and changes nothing: cache (maps, counts), trash,
\* backing directory and handles stay as they were.
C12_CreateExisting ==
    [][last'.op \in {"FUSE_MKNOD", "FUSE_MKDIR"} =>
       \A h \in Headers, parent \in TreeInos, name \in Names :
          (/\ MkNod(h, parent, name) \/ MkDir(h, parent, name)
           /\ parent \in DOMAIN cache
           /\ cache[parent].kind = "DIR"
           /\ name \in DOMAIN cache[parent].entries) =>
             /\ last'.replies = <<[unique |-> h.unique, error |-> EEXIST,
                                   kind |-> "error", payload |-> <<>>]>>
             /\ fsVars' = fsVars
             /\ ~panicked']_vars

C12_Witness ==
    /\ last.op = "FUSE_MKDIR"
    /\ Len(last.replies) = 1
    /\ last.replies[1].error = EEXIST
    /\ \E i \in DOMAIN cache : i # FUSE_ROOT_ID /\ cache[i].kind = "FILE"

\* C13: lookup, unlink, rmdir and rename of a name the (source) parent's
\* directory map does not hold are answered with ENOENT and change nothing.
C13_AbsentName ==
    [][last'.op \in {"FUSE_LOOKUP", "FUSE_UNLINK", "FUSE_RMDIR", "FUSE_RENAME"} =>
       \A h \in Headers, parent \in TreeInos, name \in Names :
          (/\ parent \in DOMAIN cache
           /\ cache[parent].kind = "DIR"
           /\ name \notin DOMAIN cache[parent].entries
           /\ \/ Lookup(h, parent, name)
              \/ Unlink(h, parent, name)
              \/ RmDir(h, parent, name)
              \/ \E new_parent \in TreeInos, newname \in Names :
                    Rename(h, parent, name, new_parent, newname)) =>
             /\ last'.replies = <<[unique |-> h.unique, error |-> ENOENT,
                                   kind |-> "error", payload |-> <<>>]>>
             /\ fsVars' = fsVars
             /\ ~panicked']_vars

C13_Witness ==
    /\ last.op = "FUSE_RENAME"
    /\ Len(last.replies) = 1
    /\ last.replies[1].error = ENOENT
    /\ DOMAIN cache[FUSE_ROOT_ID].entries # {}

\* C14: rmdir of a directory whose map holds an entry is answered with
\* ENOTEMPTY and changes nothing: the directory stays in its parent's map
\* and in the cache, and the trash is as before.
C14_RmdirNotEmpty ==
    [][last'.op = "FUSE_RMDIR" =>
       \A h \in Headers, parent \in TreeInos, name \in Names :
          (/\ RmDir(h, parent, name)
           /\ parent \in DOMAIN cache
           /\ cache[parent].kind = "DIR"
           /\ name \in DOMAIN cache[parent].entries
           /\ cache[parent].entries[name].ino \in DOMAIN cache
           /\ cache[cache[parent].entries[name].ino].kind = "DIR"
           /\ DOMAIN cache[cache[parent].entries[name].ino].entries # {}) =>
             /\ last'.replies = <<[unique |-> h.unique, error |-> ENOTEMPTY,
                                   kind |-> "error", payload |-> <<>>]>>
             /\ fsVars' = fsVars
             /\ ~panicked']_vars

C14_Witness ==
    /\ last.op = "FUSE_RMDIR"
    /\ Len(last.replies) = 1
    /\ last.replies[1].error = ENOTEMPTY
    /\ \E i \in DOMAIN cache \ {FUSE_ROOT_ID} :
          /\ cache[i].kind = "DIR"
          /\ DOMAIN cache[i].entries # {}
          /\ i \notin trash

\* C15: rename of an entry (its inode cached) to a name the new parent's
\* directory map already holds is answered with EEXIST and changes nothing:
\* both maps, the child's parent and name, cache, trash and the backing
\* directory stay as they were, so the entry at the new name is not replaced.
C15_RenameExisting ==
    [][last'.op = "FUSE_RENAME" =>
       \A h \in Headers, parent \in TreeInos, name \in Names,
          new_parent \in TreeInos, newname \in Names :
          (/\ Rename(h, parent, name, new_parent, newname)
           /\ parent \in DOMAIN cache
           /\ cache[parent].kind = "DIR"
           /\ name \in DOMAIN cache[parent].entries
           /\ cache[parent].entries[name].ino \in DOMAIN cache
           /\ new_parent \in DOMAIN cache
           /\ cache[new_parent].kind = "DIR"
           /\ newname \in DOMAIN cache[new_parent].entries) =>
             /\ last'.replies = <<[unique |-> h.unique, error |-> EEXIST,
                                   kind |-> "error", payload |-> <<>>]>>
             /\ fsVars' = fsVars
             /\ ~panicked']_vars

C15_Witness ==
    /\ last.op = "FUSE_RENAME"
    /\ Len(last.replies) = 1
    /\ last.replies[1].error = EEXIST
    /\ \E d \in DOMAIN cache \ {FUSE_ROOT_ID} :
          cache[d].kind = "DIR" /\ DOMAIN cache[d].entries # {}

\* C16: a read of a regular file that does not panic leaves the buffer as
\* it was unless it was empty (lazy load), answers EINVAL exactly when the
\* offset is at or beyond the buffer's length, and otherwise answers the
\* bytes of the buffer from offset up to min(offset + size, length); apart
\* from the loaded buffer it changes nothing.
C16_Read ==
    [][last'.op = "FUSE_READ" =>
       \A h \in {last'.hdr} \cap Headers, ino \in Inos, offset \in 0..MaxFileLen, size \in 1..MaxFileLen :
          (Read(h, ino, offset, size) /\ ~panicked') =>
             LET buf == cache'[ino].data
                 len == Len(buf)
             IN /\ cache[ino].data # <<>> => buf = cache[ino].data
                /\ Len(last'.replies) = 1
                /\ last'.replies[1].unique = h.unique
                /\ (offset >= len) <=> (last'.replies[1].error = EINVAL)
                /\ offset < len =>
                      /\ last'.replies[1].error = 0
                      /\ last'.replies[1].kind = "data"
                      /\ Len(last'.replies[1].payload) =
                            (IF offset + size < len THEN offset + size ELSE len) - offset
                      /\ \A k \in 1..Len(last'.replies[1].payload) :
                            last'.replies[1].payload[k] = buf[offset + k]
                /\ cache' = [cache EXCEPT ![ino].data = buf]
                /\ trash' = trash
                /\ disk' = disk
                /\ handles' = handles]_vars

C16_Witness ==
    /\ last.op = "FUSE_READ"
    /\ Len(last.replies) = 1
    /\ last.replies[1].kind = "data"
    /\ \E i \in DOMAIN cache :
          /\ cache[i].kind = "FILE"
          /\ Len(cache[i].data) = 2
          /\ cache[i].data[1] # cache[i].data[2]
          /\ last.replies[1].payload = <<cache[i].data[2]>>

C18_WriteSize ==
    [][last'.op = "FUSE_WRITE" =>
       \A h \in {last'.hdr} \cap Headers, ino \in Inos, fh \in 1..MaxHandles, offset \in 0..MaxFileLen,
          data \in WriteDataWide :
          (Write(h, ino, fh, offset, data) /\ ~panicked') =>
             cache'[ino].size = (IF cache[ino].size > offset + Len(data)
                                 THEN cache[ino].size ELSE offset + Len(data))]_vars

\* C19: an attribute reaches setattr as a present option exactly when its
\* valid bit is set.  A setattr with none of the attributes mode, uid and
\* size present (a file handle is not an attribute) is answered with ENODATA
\* and changes nothing; with one of them present it puts exactly the fields
\* that are present into the attributes, stamps ctime with the time of the
\* request, leaves everything else and answers the new attributes.
C19_SetAttr ==
    [][last'.op = "FUSE_SETATTR" =>
       \A h \in {last'.hdr} \cap Headers, ino \in Inos, arg \in SetattrIns :
          (SetAttr(h, ino, SetattrParam(arg)) /\ ~panicked') =>
             LET m == BitAnd(arg.valid, FATTR_MODE) # 0
                 u == BitAnd(arg.valid, FATTR_UID) # 0
                 z == BitAnd(arg.valid, FATTR_SIZE) # 0
                 f == BitAnd(arg.valid, FATTR_FH) # 0
                 p == SetattrParam(arg)
             IN /\ p.mode = IF m THEN <<arg.mode>> ELSE <<>>
                /\ p.uid = IF u THEN <<arg.uid>> ELSE <<>>
                /\ p.size = IF z THEN <<arg.size>> ELSE <<>>
                /\ p.fh = IF f THEN <<arg.fh>> ELSE <<>>
                /\ trash' = trash /\ disk' = disk /\ handles' = handles
                /\ IF m \/ u \/ z
                   THEN /\ cache' = [cache EXCEPT
                                       ![ino].perm = IF m THEN arg.mode.perm ELSE @,
                                       ![ino].uid = IF u THEN arg.uid ELSE @,
                                       ![ino].size = IF z THEN arg.size ELSE @,
                                       ![ino].ctime = h.unique]
                        /\ last'.replies =
                              <<[unique |-> h.unique, error |-> 0, kind |-> "attr",
                                 payload |-> [ino |-> ino, kind |-> cache[ino].kind,
                                              size |-> cache'[ino].size,
                                              perm |-> cache'[ino].perm,
                                              uid |-> cache'[ino].uid,
                                              ctime |-> h.unique]]>>
                   ELSE /\ cache' = cache
                        /\ last'.replies = <<[unique |-> h.unique, error |-> ENODATA,
                                              kind |-> "error", payload |-> <<>>]>>]_vars

C19_Witness ==
    /\ last.op = "FUSE_SETATTR"
    /\ Len(last.replies) = 1
    /\ last.replies[1].kind = "attr"
    /\ last.replies[1].payload.perm = 1
    /\ last.replies[1].payload.uid = 0
    /\ last.replies[1].payload.size = 1
    /\ last.replies[1].payload.ctime = 2
    /\ last.replies[1].payload.kind = "FILE"

\* C20: a readdir at offset k of a directory whose map holds n names, with
\* a buffer that takes them all, is answered with the entries at the
\* positions k .. n-1 of the names in their order (none when k >= n); from
\* offset 0 the j-th entry of the answer carries the next offset j.
C20_ReadDir ==
    [][last'.op = "FUSE_READDIR" =>
       \A h \in {last'.hdr} \cap Headers, ino \in TreeInos, offset \in 0..MaxName :
          (ReadDir(h, ino, offset, 4096) /\ ~panicked') =>
             LET ents == cache'[ino].entries
                 n    == Cardinality(DOMAIN ents)
                 p    == last'.replies[1].payload
             IN /\ Len(last'.replies) = 1
                /\ last'.replies[1].error = 0
                /\ Len(p) = IF offset >= n THEN 0 ELSE n - offset
                /\ \A j \in 1..Len(p) :
                      /\ p[j].name \in DOMAIN ents
                      /\ Cardinality({x \in DOMAIN ents : x < p[j].name}) = offset + j - 1
                      /\ p[j].ino = ents[p[j].name].ino
                      /\ offset = 0 => p[j].off = j]_vars

C20_Witness ==
    /\ last.op = "FUSE_READDIR"
    /\ Len(last.replies) = 1
    /\ Len(last.replies[1].payload) = 2
    /\ last.replies[1].payload[1].off = 1
    /\ last.replies[1].payload[2].off = 2
    /\ last.replies[1].payload[1].kind # last.replies[1].payload[2].kind

\* C21: the remaining data of an argument iterator is always the rest of the
\* slice it was made for; a successful fetch_bytes(amt), fetch::<T>() or
\* fetch_str() returns the bytes that follow the bytes consumed so far and
\* moves the cursor by amt, by size_of::<T>(), or by the length of the
\* string and one more for its NUL, and fetch_all returns all that is left
\* and leaves len() = 0.
C21_FetchConsecutive ==
    [][LET n   == Len(iter.orig)
           pos == n - IterLen(iter)
       IN /\ iter.data = SubSeq(iter.orig, pos + 1, n)
          /\ \A amt \in 0..(MaxArgLen + 1) :
                (FetchBytes(amt) /\ iter'.ret # <<>>) =>
                   /\ iter'.ret = <<SubSeq(iter.orig, pos + 1, pos + amt)>>
                   /\ IterLen(iter') = IterLen(iter) - amt
                   /\ iter'.data = SubSeq(iter.orig, pos + amt + 1, n)
          /\ \A T \in TypeLayouts :
                (Fetch(T) /\ ~panicked' /\ iter'.ret # <<>>) =>
                   /\ iter'.ret = <<SubSeq(iter.orig, pos + 1, pos + T.size)>>
                   /\ IterLen(iter') = IterLen(iter) - T.size
                   /\ iter'.data = SubSeq(iter.orig, pos + T.size + 1, n)
          /\ (FetchStr /\ iter'.ret # <<>>) =>
                LET str == iter'.ret[1]
                IN /\ str = SubSeq(iter.orig, pos + 1, pos + Len(str))
                   /\ \A k \in 1..Len(str) : str[k] # 0
                   /\ iter.orig[pos + Len(str) + 1] = 0
                   /\ IterLen(iter') = IterLen(iter) - (Len(str) + 1)
                   /\ iter'.data = SubSeq(iter.orig, pos + Len(str) + 2, n)
          /\ FetchAll =>
                /\ iter'.ret = <<SubSeq(iter.orig, pos + 1, n)>>
                /\ IterLen(iter') = 0]_vars

C21_Witness ==
    /\ iter.call = "fetch_str"
    /\ iter.ret = <<(<<1>>)>>
    /\ Len(iter.orig) = 4
    /\ iter.data = <<2>>

\* C22: a fetch_bytes(amt) with amt above the bytes left, a fetch::<T>()
\* with size_of::<T>() above the bytes left and a fetch_str() with no NUL
\* left return None, and a call that returns None leaves the remaining data
\* as it was.
C22_FailedFetch ==
    [][/\ \A amt \in 0..(MaxArgLen + 1) :
             FetchBytes(amt) =>
                /\ amt > IterLen(iter) => iter'.ret = <<>>
                /\ iter'.ret = <<>> => iter'.data = iter.data
       /\ \A T \in TypeLayouts :
             Fetch(T) =>
                /\ T.size > IterLen(iter) => (iter'.ret = <<>> /\ ~panicked')
                /\ iter'.ret = <<>> => iter'.data = iter.data
       /\ FetchStr =>
             /\ (\A k \in 1..IterLen(iter) : iter.data[k] # 0) => iter'.ret = <<>>
             /\ iter'.ret = <<>> => iter'.data = iter.data]_vars

C22_Witness ==
    /\ iter.call = "fetch_str"
    /\ iter.ret = <<>>
    /\ iter.data = <<1, 2>>
    /\ Len(iter.orig) = 4

\* C23: when the file system's init returns an error for an INIT with an
\* accepted version, that error is the one reply of the step, no
\* fuse_init_out is sent, and initialized is left as it was: a session not
\* yet initialized stays so.
C23_InitError ==
    [][last'.op = "FUSE_INIT" =>
       \A h \in {last'.hdr} \cap Headers, arg \in InitIns, res \in FsInitResults :
          (/\ DispatchInit(h, arg.major, arg.minor, arg.max_readahead, arg.flags, res)
           /\ ~UnsupportedVersion(arg.major, arg.minor)
           /\ res # 0) =>
             /\ last'.replies = <<[unique |-> h.unique, error |-> res, kind |-> "error",
                                   payload |-> <<>>]>>
             /\ last'.called = <<"init">>
             /\ initialized' = initialized
             /\ ~initialized => ~initialized']_vars

C23_Witness ==
    /\ last.op = "FUSE_INIT"
    /\ last.called = <<"init">>
    /\ Len(last.replies) = 1
    /\ last.replies[1].error = EACCES
    /\ ~initialized
    /\ proto_major = 7

\* C24 (as stated): a lookup, mknod or mkdir that is answered with an entry
\* leaves the lookup count of the inode of that entry one above what it was
\* before, an inode that was not in the cache counting as 0.
C24_EntryCountsOne ==
    [][last'.op \in {"FUSE_LOOKUP", "FUSE_MKNOD", "FUSE_MKDIR"} =>
       ((/\ ~panicked'
         /\ Len(last'.replies) = 1
         /\ last'.replies[1].kind = "entry") =>
            LET ino == last'.replies[1].payload.attr.ino
            IN cache'[ino].lookup_count =
                  (IF ino \in DOMAIN cache THEN cache[ino].lookup_count ELSE 0) + 1)]_vars

\* C25 (as stated): the open count of every inode in the cache is the number
\* of handles open and opendir returned for it and release and releasedir
\* have not yet closed.
C25_OpenCountAsStated ==
    \A i \in DOMAIN cache : cache[i].open_count = Cardinality(HandlesOf(i))

\* C25: under a kernel that releases the handles it holds on the inode it
\* holds them for, the open count of every inode in the cache is one, for
\* the descriptor the inode itself was made with, plus the number of handles
\* open and opendir returned for it and release and releasedir have not yet
\* closed.
C25_OpenCount ==
    \A i \in DOMAIN cache : cache[i].open_count = 1 + Cardinality(HandlesOf(i))

C25_Witness ==
    /\ last.op = "FUSE_OPEN"
    /\ \E i \in DOMAIN cache \ {FUSE_ROOT_ID} :
          /\ HandlesOf(i) # {}
          /\ cache[i].open_count = 2
    /\ cache[FUSE_ROOT_ID].open_count = 1

\* C26: an open or opendir that does not panic adds exactly one to the open
\* count of its inode, a release or releasedir takes exactly one off, and
\* they change nothing else in the cache (lookup counts, directory maps,
\* keys) nor the trash; a lookup or a forget leaves the open count of every
\* inode that stays in the cache as it was.
C26_OpenCountFrame ==
    [][/\ last'.op \in {"FUSE_OPEN", "FUSE_OPENDIR", "FUSE_RELEASE", "FUSE_RELEASEDIR"} =>
          \A h \in {last'.hdr} \cap Headers, ino \in Inos :
             /\ (/\ \E flags \in OpenFlags : Open(h, ino, flags) \/ OpenDir(h, ino, flags)
                 /\ ~panicked') =>
                   /\ cache' = [cache EXCEPT ![ino].open_count = @ + 1]
                   /\ trash' = trash
             /\ (/\ \E fh \in 1..MaxHandles : Release(h, ino, fh) \/ ReleaseDir(h, ino, fh)
                 /\ ~panicked') =>
                   /\ cache' = [cache EXCEPT ![ino].open_count = @ - 1]
                   /\ trash' = trash
       /\ (last'.op \in {"FUSE_LOOKUP", "FUSE_FORGET"} /\ ~panicked') =>
             \A i \in DOMAIN cache \cap DOMAIN cache' :
                cache'[i].open_count = cache[i].open_count]_vars

C26_Witness ==
    /\ last.op = "FUSE_RELEASEDIR"
    /\ ~panicked
    /\ Cardinality(DOMAIN cache) = 2
    /\ \A i \in DOMAIN cache : cache[i].open_count = 1 /\ HandlesOf(i) = {}

\* the inodes some directory in the cache has an entry for
Referenced ==
    UNION {{cache[d].entries[n].ino : n \in DOMAIN cache[d].entries} :
              d \in {e \in DOMAIN cache : cache[e].kind = "DIR"}}

\* C27: every inode in the trash is in the cache and no directory in the
\* cache has an entry for it; the trash grows only by an unlink or rmdir
\* that takes the entry of an inode away and keeps the inode in the cache,
\* every such inode is put into it, and it shrinks only when a forget takes
\* the inode out of the cache.
C27_Trash ==
    /\ [](\A t \in trash : t \in DOMAIN cache /\ t \notin Referenced)
    /\ [][~panicked' =>
          /\ last'.op \in {"FUSE_UNLINK", "FUSE_RMDIR"} =>
                \A h \in {last'.hdr} \cap Headers, parent \in Inos, name \in Names :
                   (/\ Unlink(h, parent, name) \/ RmDir(h, parent, name)
                    /\ Len(last'.replies) = 1
                    /\ last'.replies[1].error = 0) =>
                      LET c == cache[parent].entries[name].ino
                      IN /\ c \notin Referenced'
                         /\ trash' = IF c \in DOMAIN cache' THEN trash \cup {c} ELSE trash
          /\ trash' # trash =>
                \/ /\ last'.op \in {"FUSE_UNLINK", "FUSE_RMDIR"}
                   /\ \E c \in DOMAIN cache' : c \in Referenced /\ trash' = trash \cup {c}
                \/ /\ last'.op = "FUSE_FORGET"
                   /\ \E i \in trash : i \notin DOMAIN cache' /\ trash' = trash \ {i}]_vars

C27_Witness ==
    /\ last.op = "FUSE_UNLINK"
    /\ ~panicked
    /\ trash # {}
    /\ \A t \in trash : t \in DOMAIN cache /\ cache[t].kind = "FILE"
    /\ DOMAIN cache[FUSE_ROOT_ID].entries = {}

\* C28: as long as the process has not panicked the root inode is in the
\* cache and is not in the trash, whatever unlink, rmdir, rename and forget
\* messages were served.
C28_RootStays ==
    ~panicked => (FUSE_ROOT_ID \in DOMAIN cache /\ FUSE_ROOT_ID \notin trash)

C28_Witness ==
    /\ last.op = "FUSE_FORGET"
    /\ ~panicked
    /\ FUSE_ROOT_ID \in DOMAIN cache
    /\ cache[FUSE_ROOT_ID].lookup_count = 0
    /\ trash # {}

C31_BalancedLeavesNothing ==
    (~panicked /\ \A i \in DOMAIN kernel_nlookup : kernel_nlookup[i] = 0) =>
        /\ trash = {}
        /\ DOMAIN cache \ {FUSE_ROOT_ID} \subseteq Referenced
\* C32: a successful mknod / mkdir (parent, name) puts name -> new ino with
\* the matching entry type into the parent's map and the new inode into the
\* cache with that parent, that name, lookup_count 1 and open_count 1; the
\* counts of every other inode, every other directory map, the parent's
\* other entries and trash stay as they were.
C32_CreateEffect ==
    [][LET Created(parent, name, kind, entry_type) ==
            LET new_ino == last'.replies[1].payload.attr.ino
            IN /\ new_ino \notin DOMAIN cache
               /\ DOMAIN cache' = DOMAIN cache \cup {new_ino}
               /\ HasEntry(cache'[parent], name)
               /\ cache'[parent].entries[name] = DirEntry(new_ino, entry_type)
               /\ cache'[new_ino].kind = kind
               /\ cache'[new_ino].parent = parent
               /\ cache'[new_ino].name = name
               /\ cache'[new_ino].lookup_count = 1
               /\ cache'[new_ino].open_count = 1
               /\ \A i \in DOMAIN cache :
                     /\ cache'[i].lookup_count = cache[i].lookup_count
                     /\ cache'[i].open_count = cache[i].open_count
                     /\ i # parent => cache'[i].entries = cache[i].entries
               /\ DOMAIN cache'[parent].entries = DOMAIN cache[parent].entries \cup {name}
               /\ \A m \in DOMAIN cache[parent].entries :
                     cache'[parent].entries[m] = cache[parent].entries[m]
               /\ trash' = trash
       IN last'.op \in {"FUSE_MKNOD", "FUSE_MKDIR"} =>
        \A h \in {last'.hdr} \cap Headers, parent \in TreeInos, name \in Names :
          /\ (MkNod(h, parent, name) /\ ~panicked' /\ last'.replies[1].error = 0)
                => Created(parent, name, "FILE", "File")
          /\ (MkDir(h, parent, name) /\ ~panicked' /\ last'.replies[1].error = 0)
                => Created(parent, name, "DIR", "Directory")]_vars

\* a file was made in a directory below the root
C32_Witness ==
    /\ ~panicked
    /\ last.op = "FUSE_MKNOD"
    /\ Len(last.replies) = 1
    /\ last.replies[1].error = 0
    /\ \E d \in DOMAIN cache \ {FUSE_ROOT_ID} :
          /\ cache[d].kind = "DIR"
          /\ \E n \in DOMAIN cache[d].entries :
                cache[d].entries[n].ino = last.replies[1].payload.attr.ino
\* C33: a successful rename (parent, name, new_parent, newname) leaves the
\* old parent's map without name and the new parent's map with newname ->
\* the same ino and entry type, the child storing new_parent and newname;
\* the cache key set, trash and every lookup and open count are unchanged.
C33_RenameEffect ==
    [][LET Renamed(parent, name, new_parent, newname) ==
            LET ino == cache[parent].entries[name].ino
            IN /\ ~HasEntry(cache'[parent], name)
               /\ HasEntry(cache'[new_parent], newname)
               /\ cache'[new_parent].entries[newname] = cache[parent].entries[name]
               /\ cache'[ino].parent = new_parent
               /\ cache'[ino].name = newname
               /\ DOMAIN cache' = DOMAIN cache
               /\ trash' = trash
               /\ \A i \in DOMAIN cache :
                     /\ cache'[i].lookup_count = cache[i].lookup_count
                     /\ cache'[i].open_count = cache[i].open_count
       IN last'.op = "FUSE_RENAME" =>
        \A h \in {last'.hdr} \cap Headers, parent \in TreeInos, name \in Names,
          new_parent \in TreeInos, newname \in Names :
          (Rename(h, parent, name, new_parent, newname) /\ ~panicked'
              /\ last'.replies[1].error = 0)
             => Renamed(parent, name, new_parent, newname)]_vars

\* a rename has moved a node out of the root into a directory below it
C33_Witness ==
    /\ ~panicked
    /\ last.op = "FUSE_RENAME"
    /\ Len(last.replies) = 1
    /\ last.replies[1].error = 0
    /\ DOMAIN cache = TreeInos
    /\ Cardinality(DOMAIN cache[FUSE_ROOT_ID].entries) = 1
    /\ \E d \in DOMAIN cache \ {FUSE_ROOT_ID} :
          /\ cache[d].kind = "DIR"
          /\ \E n \in DOMAIN cache[d].entries :
                /\ cache[cache[d].entries[n].ino].parent = d
                /\ cache[cache[d].entries[n].ino].name = n
                /\ cache[d].name # n
\* C34: the entries of a readdir reply are a contiguous run of the
\* name-ordered entries of the directory that starts at the requested
\* offset: nothing is added after the first entry that does not fit.
C34_ContiguousRun ==
    [][last'.op = "FUSE_READDIR" =>
        \A h \in {last'.hdr} \cap Headers, ino \in TreeInos, offset \in 0..MaxName,
          size \in ReaddirSizes :
          (ReadDir(h, ino, offset, size) /\ ~panicked') =>
             LET names == SortedNames(DOMAIN cache'[ino].entries)
                 buf   == last'.replies[1].payload
             IN \A j \in 1..Len(buf) :
                   /\ offset + j <= Len(names)
                   /\ buf[j].name = names[offset + j]]_vars
\* C35: a listing by successive readdir requests, the first for offset 0 and
\* each next one for the offset of the last entry of the previous reply, has
\* returned every entry of the unchanged directory exactly once when it
\* ends, however many entries fitted each reply.
C35_EveryEntryOnce ==
    (~panicked /\ dir_stream.eof) =>
        /\ Len(dir_stream.seen) = Cardinality(DOMAIN cache[dir_stream.ino].entries)
        /\ {dir_stream.seen[j] : j \in 1..Len(dir_stream.seen)}
              = DOMAIN cache[dir_stream.ino].entries
\* C36: an inode is not removed from the cache while a handle that open or
\* opendir gave out for it is unreleased, so that a release (or read, or
\* write) that comes after unlink / rmdir and forget still finds its inode.
C36_OpenInodeCached ==
    ~panicked => \A fh \in DOMAIN handles : handles[fh].ino \in DOMAIN cache
\* C37: every ino in trash is a key of the cache and its inode has a lookup
\* count above 0; an inode whose lookup count is 0 is not left in trash.
C37_TrashCounted ==
    ~panicked => \A i \in trash : i \in DOMAIN cache /\ cache[i].lookup_count > 0
\* C38: the emptiness check applies to every removal of a directory entry,
\* an unlink on a name whose entry is a directory included: a removal
\* request on a directory whose entry map is not empty is refused with
\* ENOTEMPTY and the directory stays in its parent's map.
C38_EmptinessChecked ==
    [][LET NonEmptyDirectory(parent, name) ==
            /\ parent \in DOMAIN cache
            /\ cache[parent].kind = "DIR"
            /\ HasEntry(cache[parent], name)
            /\ cache[parent].entries[name].entry_type = "Directory"
            /\ cache[parent].entries[name].ino \in DOMAIN cache
            /\ ~IsEmpty(cache[cache[parent].entries[name].ino])
       IN last'.op \in {"FUSE_UNLINK", "FUSE_RMDIR"} =>
        \A h \in {last'.hdr} \cap Headers, parent \in TreeInos, name \in Names :
          ((Unlink(h, parent, name) \/ RmDir(h, parent, name))
              /\ NonEmptyDirectory(parent, name))
             => /\ ~panicked'
                /\ last'.replies[1].error = ENOTEMPTY
                /\ cache' = cache
                /\ trash' = trash]_vars
\* C39: every regular-file inode whose in-memory buffer is not empty has an
\* attribute size equal to the length of the buffer, after any sequence of
\* write, setattr and read.
C39_SizeIsBufferLength ==
    ~panicked =>
        \A i \in DOMAIN cache :
            (cache[i].kind = "FILE" /\ cache[i].data # <<>>)
               => cache[i].size = Len(cache[i].data)
====
